---- MODULE Spec2Model ----
(***************************************************************************)
(* Model of the decision core of the LinkedIn automation extension:        *)
(*   - WarmupProtocol and CooldownManager   (core/warmup-protocol)         *)
(*   - DetectionSystem                      (core/detection-system)        *)
(*   - HumanizationEngine                   (core/humanization-engine.ts)  *)
(* Clock values are whole seconds since an arbitrary origin; durations     *)
(* reported for an action and the delays of the timing model are in        *)
(* milliseconds, as in the source.                                         *)
(***************************************************************************)
EXTENDS Integers, Sequences, FiniteSets, TLC

VARIABLES
    now,              \* Date.now(), in seconds
    accountAge,       \* WarmupProtocol.accountAge
    warmupStartDate,  \* WarmupProtocol.warmupStartDate
    currentDay,       \* WarmupProtocol.currentDay (set by the constructor)
    warmupCall,       \* the last call made on the WarmupProtocol and its result
    storage,          \* chrome.storage.local, the keys the core reads and writes
    call,             \* per execution context: the storage handler it is running
    enablesDone,      \* history: completed calls of enable48HourCooldown
    sessionState,     \* the SessionState object the detector and the timing model hold
    consecutiveFailures,  \* DetectionSystem.consecutiveFailures
    lastActionTimes,  \* DetectionSystem.lastActionTimes
    detectCall,       \* the last call made on the DetectionSystem and its result
    recentOutcomes,   \* history: the success flags of the last three outcome reports
    recordsMade,      \* history: calls of recordActionTime so far
    timingCall,       \* the last call made on the HumanizationEngine and its result
    responseCall,     \* the last call of ResponseProtocol.executeResponse and its effects
    pages,            \* per page: the fields of its AutomationController and its timers
    loops,            \* per page: the activations of automationLoop and where each stands
    popupView         \* the popup's React state as of its last loadData

warmupVars == <<accountAge, warmupStartDate, currentDay, warmupCall>>

cooldownVars == <<storage, call, enablesDone>>

detectVars == <<consecutiveFailures, lastActionTimes, detectCall, recentOutcomes, recordsMade>>

loopVars == <<pages, loops, popupView>>

vars ==
    <<now, warmupVars, cooldownVars, sessionState, detectVars, timingCall, responseCall,
      loopVars>>

\* what the operations of one component leave alone
outsideWarmup ==
    <<now, cooldownVars, sessionState, detectVars, timingCall, responseCall, loopVars>>

outsideCooldown ==
    <<warmupVars, sessionState, detectVars, timingCall, responseCall, loopVars>>

outsideDetect ==
    <<warmupVars, cooldownVars, sessionState, timingCall, responseCall, loopVars>>

outsideTiming ==
    <<now, warmupVars, cooldownVars, sessionState, detectVars, responseCall, loopVars>>

outsideResponse ==
    <<warmupVars, call, enablesDone, sessionState, detectVars, timingCall, loopVars>>

outsideLoop ==
    <<warmupVars, call, enablesDone, sessionState, detectVars, timingCall, responseCall>>

(***************************************************************************)
(* Enumerations (types)                                                    *)
(***************************************************************************)
SpeedModes == {"ULTRA_SLOW", "SLOW", "MEDIUM", "NORMAL"}

AccountAges == {"UNDER_3_MONTHS", "THREE_TO_SIX_MONTHS", "SIX_TO_TWELVE_MONTHS",
                "ONE_TO_TWO_YEARS", "OVER_TWO_YEARS"}

ActionKinds == {"like", "comment", "view"}

\* 1000 * 60 * 60 * 24 ms, in seconds
DaySeconds == 86400

\* 48 * 60 * 60 * 1000 ms, in seconds
CooldownSeconds == 172800

(***************************************************************************)
(* Bounds of the model                                                     *)
(***************************************************************************)
\* warm-up days -1 .. MaxDay are explored
MaxDay == 29

\* getPostWarmupLimits is explored for warm-ups that started up to MaxPostDay days ago
MaxPostDay == 95

\* Math.random() takes the values 0, 1/RandomSteps, ... below 1
RandomSteps == 6

\* the clock advances in steps of TickSeconds, at most MaxTicks times
MaxTicks == 7

\* 12 hours
TickSeconds == CooldownSeconds \div 4

\* enable48HourCooldown is not called again once the counter has reached this
MaxWarnings == 3

\* no further failure is reported once consecutiveFailures has reached this
MaxFailures == 5

\* recordActionTime is called at most this often (scans and outcome reports explored)
MaxScanRecords == 5

\* recordActionTime is called at most this often (timing patterns explored)
MaxPatternRecords == 7

\* a random byte is drawn from NumByteSamples + 1 values
NumByteSamples == 2

\* actionsThisSession of the sessions asked for a break runs up to this
MaxSessionActions == 50

(***************************************************************************)
(* WarmupProtocol                                                          *)
(***************************************************************************)
\* Math.floor((Date.now() - warmupStartDate) / DAY) + 1 ; \div is floor division
CalculateCurrentDay(t, start) == ((t - start) \div DaySeconds) + 1

WarmupConfig(actions, comments, spread, speeds, degree, approval) ==
    [maxActionsPerDay |-> actions, maxCommentsPerDay |-> comments,
     minActionSpread |-> spread, allowedSpeed |-> speeds,
     restrictedToConnections |-> degree, requiresManualApproval |-> approval]

\* a blocked tier that still lists a speed mode (used to test the model)
BlockedConfigWithSpeed ==
    WarmupConfig(0, 0, 24, {"ULTRA_SLOW"}, 1, TRUE)

BlockedConfig ==
    WarmupConfig(0, 0, 24, {}, 1, TRUE)

\* week 2 of the 6-12 months tier taken from day 7 on (used to test the model)
SixToTwelveConfigEarly(day) ==
    IF day <= 6
    THEN WarmupConfig(15, 3, 4, {"SLOW"}, 3, FALSE)
    ELSE WarmupConfig(30, 7, 3, {"SLOW", "MEDIUM"}, 3, FALSE)

SixToTwelveConfig(day) ==
    IF day <= 7
    THEN WarmupConfig(15, 3, 4, {"SLOW"}, 3, FALSE)
    ELSE WarmupConfig(30, 7, 3, {"SLOW", "MEDIUM"}, 3, FALSE)

ThreeToSixConfig(day) ==
    IF day <= 7 THEN WarmupConfig(5, 0, 6, {"ULTRA_SLOW"}, 1, TRUE)
    ELSE IF day <= 14 THEN WarmupConfig(10, 1, 5, {"ULTRA_SLOW", "SLOW"}, 2, FALSE)
    ELSE IF day <= 21 THEN WarmupConfig(15, 2, 4, {"SLOW"}, 2, FALSE)
    ELSE WarmupConfig(25, 3, 4, {"SLOW", "MEDIUM"}, 3, FALSE)

GetWarmupConfig(age, day) ==
    IF age = "UNDER_3_MONTHS" THEN BlockedConfig
    ELSE IF age = "THREE_TO_SIX_MONTHS" THEN ThreeToSixConfig(day)
    ELSE IF age = "SIX_TO_TWELVE_MONTHS" THEN SixToTwelveConfig(day)
    ELSE IF age = "ONE_TO_TWO_YEARS"
        THEN WarmupConfig(40, 10, 3, {"SLOW", "MEDIUM", "NORMAL"}, 3, FALSE)
    ELSE IF age = "OVER_TWO_YEARS"
        THEN WarmupConfig(60, 15, 3, {"SLOW", "MEDIUM", "NORMAL"}, 3, FALSE)
    ELSE WarmupConfig(20, 5, 4, {"SLOW"}, 2, FALSE)

Denied(why) == [allowed |-> FALSE, reason |-> why]

Allowed == [allowed |-> TRUE, reason |-> "none"]

\* canPerformAction with the comment rules left out (used to test the model)
CanPerformActionNoCommentRules(config, actionType, actionsToday, commentsToday, connectionDegree, currentSpeed) ==
    IF actionsToday >= config.maxActionsPerDay
        THEN Denied("daily action limit reached")
    ELSE IF connectionDegree > config.restrictedToConnections
        THEN Denied("connection degree")
    ELSE IF currentSpeed \notin config.allowedSpeed
        THEN Denied("speed mode not allowed")
    ELSE Allowed

\* the rules of canPerformAction, in the order of the source
CanPerformAction(config, actionType, actionsToday, commentsToday, connectionDegree, currentSpeed) ==
    IF actionsToday >= config.maxActionsPerDay
        THEN Denied("daily action limit reached")
    ELSE IF actionType = "comment" /\ commentsToday >= config.maxCommentsPerDay
        THEN Denied("daily comment limit reached")
    ELSE IF actionType = "comment" /\ config.maxCommentsPerDay = 0
        THEN Denied("comments disabled")
    ELSE IF connectionDegree > config.restrictedToConnections
        THEN Denied("connection degree")
    ELSE IF currentSpeed \notin config.allowedSpeed
        THEN Denied("speed mode not allowed")
    ELSE Allowed

\* inputs of the calls: counters around every cap of the tables, zero and negative
ActionCountSamples == {-1, 0, 4, 5, 9, 10, 14, 15, 24, 25, 29, 30, 39, 40, 59, 60}

CommentCountSamples == {-1, 0, 1, 2, 3, 7, 10, 15}

ConnectionDegrees == 1..4

\* warm-up start dates: whole days before or after now, and half a day either side
StartDateSamples ==
    {now - d * DaySeconds : d \in -2..MaxDay}
        \cup {now - DaySeconds \div 2, now + DaySeconds \div 2}

NoCall == [op |-> "none"]

WarmupInit ==
    /\ accountAge = "SIX_TO_TWELVE_MONTHS"
    /\ warmupStartDate = now
    /\ currentDay = CalculateCurrentDay(now, now)
    /\ warmupCall = NoCall

\* new WarmupProtocol(accountAge, warmupStartDate)
NewWarmupProtocol(age, start) ==
    /\ warmupCall = NoCall
    /\ accountAge' = age
    /\ warmupStartDate' = start
    /\ currentDay' = CalculateCurrentDay(now, start)
    /\ warmupCall' = NoCall
    /\ UNCHANGED outsideWarmup

\* warmup.getWarmupConfig()
GetWarmupConfigCall ==
    /\ warmupCall = NoCall
    /\ warmupCall' = [op |-> "getWarmupConfig",
                      config |-> GetWarmupConfig(accountAge, currentDay)]
    /\ UNCHANGED <<accountAge, warmupStartDate, currentDay, outsideWarmup>>

\* warmup.canPerformAction(actionType, actionsToday, commentsToday, degree, speed)
CanPerformActionCall(actionType, actionsToday, commentsToday, degree, speed) ==
    /\ warmupCall = NoCall
    /\ warmupCall' = [op |-> "canPerformAction",
                      actionType |-> actionType,
                      actionsToday |-> actionsToday,
                      commentsToday |-> commentsToday,
                      connectionDegree |-> degree,
                      currentSpeed |-> speed,
                      config |-> GetWarmupConfig(accountAge, currentDay),
                      result |-> CanPerformAction(GetWarmupConfig(accountAge, currentDay),
                                     actionType, actionsToday, commentsToday, degree, speed)]
    /\ UNCHANGED <<accountAge, warmupStartDate, currentDay, outsideWarmup>>

\* Infinity is <<>>, a finite number of days n is <<n>>
Infinity == <<>>

\* getTotalWarmupDays: the length of the warm-up of each tier, 14 by default
GetTotalWarmupDays(age) ==
    IF age = "UNDER_3_MONTHS" THEN Infinity
    ELSE IF age = "THREE_TO_SIX_MONTHS" THEN <<28>>
    ELSE IF age = "SIX_TO_TWELVE_MONTHS" THEN <<14>>
    ELSE IF age = "ONE_TO_TWO_YEARS" THEN <<7>>
    ELSE IF age = "OVER_TWO_YEARS" THEN <<3>>
    ELSE <<14>>

\* this.currentDay <= totalDays
WithinDays(day, totalDays) == totalDays = Infinity \/ day <= totalDays[1]

\* warmup.getWarmupStatus(): the fields computed from the tier and the day
GetWarmupStatus(age, day) ==
    LET totalDays == GetTotalWarmupDays(age)
        config == GetWarmupConfig(age, day)
        isInWarmup == WithinDays(day, totalDays)
    IN  IF age = "UNDER_3_MONTHS"
            THEN [isInWarmup |-> TRUE, currentDay |-> 0, totalDays |-> Infinity,
                  config |-> config, canProceed |-> FALSE]
        ELSE [isInWarmup |-> isInWarmup, currentDay |-> day, totalDays |-> totalDays,
              config |-> config, canProceed |-> TRUE]

GetWarmupStatusCall ==
    /\ warmupCall = NoCall
    /\ warmupCall' = [op |-> "getWarmupStatus",
                      status |-> GetWarmupStatus(accountAge, currentDay)]
    /\ UNCHANGED <<accountAge, warmupStartDate, currentDay, outsideWarmup>>

\* this.currentDay - this.getTotalWarmupDays(); -Infinity is <<>>
DaysSinceWarmupEnd(age, day) ==
    IF GetTotalWarmupDays(age) = Infinity THEN Infinity
    ELSE <<day - GetTotalWarmupDays(age)[1]>>

PostWarmupLimits(n) == [dailyActions |-> n, percentage |-> n]

\* getPostWarmupLimits whose checkpoints come a day early (used to test the model)
GetPostWarmupLimitsEarly(age, day) ==
    LET daysSinceWarmupEnd == DaysSinceWarmupEnd(age, day)
    IN  IF age = "THREE_TO_SIX_MONTHS"
            THEN IF daysSinceWarmupEnd[1] < 30 THEN PostWarmupLimits(60)
                 ELSE IF daysSinceWarmupEnd[1] < 60 THEN PostWarmupLimits(80)
                 ELSE PostWarmupLimits(100)
        ELSE IF age = "SIX_TO_TWELVE_MONTHS"
            THEN IF daysSinceWarmupEnd[1] < 30 THEN PostWarmupLimits(75)
                 ELSE PostWarmupLimits(100)
        ELSE PostWarmupLimits(100)

\* warmup.getPostWarmupLimits()
GetPostWarmupLimits(age, day) ==
    LET daysSinceWarmupEnd == DaysSinceWarmupEnd(age, day)
    IN  IF age = "THREE_TO_SIX_MONTHS"
            THEN IF daysSinceWarmupEnd[1] <= 30 THEN PostWarmupLimits(60)
                 ELSE IF daysSinceWarmupEnd[1] <= 60 THEN PostWarmupLimits(80)
                 ELSE PostWarmupLimits(100)
        ELSE IF age = "SIX_TO_TWELVE_MONTHS"
            THEN IF daysSinceWarmupEnd[1] <= 30 THEN PostWarmupLimits(75)
                 ELSE PostWarmupLimits(100)
        ELSE PostWarmupLimits(100)

GetPostWarmupLimitsCall ==
    /\ warmupCall = NoCall
    /\ warmupCall' = [op |-> "getPostWarmupLimits",
                      limits |-> GetPostWarmupLimits(accountAge, currentDay)]
    /\ UNCHANGED <<accountAge, warmupStartDate, currentDay, outsideWarmup>>

\* a stored accountAge that is none of the five members of AccountAge
UnmatchedAccountAges == {"UNRECOGNIZED"}

\* the caller has consumed the result of the call
WarmupReturn ==
    /\ warmupCall # NoCall
    /\ warmupCall' = NoCall
    /\ UNCHANGED <<accountAge, warmupStartDate, currentDay, outsideWarmup>>

WarmupNext ==
    \/ /\ warmupCall = NoCall
       /\ \E age \in AccountAges, start \in StartDateSamples : NewWarmupProtocol(age, start)
    \/ GetWarmupConfigCall
    \/ /\ warmupCall = NoCall
       /\ \E k \in ActionKinds, a \in ActionCountSamples, c \in CommentCountSamples,
             d \in ConnectionDegrees, s \in SpeedModes : CanPerformActionCall(k, a, c, d, s)
    \/ WarmupReturn

\* warm-up start dates up to MaxPostDay days back
PostWarmupStartSamples == {now - d * DaySeconds : d \in 0..MaxPostDay}

PostWarmupNext ==
    \/ /\ warmupCall = NoCall
       /\ \E age \in AccountAges, start \in PostWarmupStartSamples : NewWarmupProtocol(age, start)
    \/ GetPostWarmupLimitsCall
    \/ WarmupReturn

\* a protocol constructed on whatever accountAge storage holds
FallbackNext ==
    \/ /\ warmupCall = NoCall
       /\ \E age \in AccountAges \cup UnmatchedAccountAges, start \in StartDateSamples :
             NewWarmupProtocol(age, start)
    \/ GetWarmupConfigCall
    \/ GetWarmupStatusCall
    \/ WarmupReturn

(***************************************************************************)
(* Persisted state and CooldownManager.  A handler is a sequence of steps, *)
(* one per await on chrome.storage.local; call[c] holds the position and   *)
(* the locals of the handler that context c is running.                    *)
(***************************************************************************)
Contexts == {"service-worker", "popup"}

\* a key that may be missing holds <<>> (undefined) or <<value>>
Undefined == <<>>

Some(v) == <<v>>

DefaultReason == "Safety cooldown active"

ReasonSamples == {"Rate limit response: 429", ""}

Idle == [op |-> "idle"]

\* StorageManager.initialize: the defaults written on first run
StorageDefaults ==
    [cooldownEnd |-> Undefined, cooldownReason |-> Undefined, warningCount |-> Some(0),
     automationEnabled |-> FALSE, automationPaused |-> FALSE, emergencyStop |-> FALSE,
     delayMultiplier |-> Undefined, batchSizeMultiplier |-> Undefined,
     skipNextActions |-> Undefined, breakUntil |-> Undefined,
     randomizationMultiplier |-> Undefined,
     speedMode |-> "SLOW",
     actionHistory |-> [day |-> 0, total |-> 0, comments |-> 0],
     sessionState |-> [actionsToday |-> 0, actionsThisSession |-> 0,
                       isWarmupPhase |-> TRUE, sessionStartTime |-> now,
                       speedMode |-> "SLOW"]]

CooldownInit ==
    /\ storage = StorageDefaults
    /\ call = [c \in Contexts |-> Idle]
    /\ enablesDone = 0

AllIdle == \A c \in Contexts : call[c] = Idle

\* !data.cooldownEnd, data.warningCount || ... : undefined and 0 are falsy
FalsyNumber(v) == v = Undefined \/ v[1] = 0

\* data.cooldownReason || ... : undefined and the empty string are falsy
FalsyString(v) == v = Undefined \/ v[1] = ""

\* data.warningCount || 0
WarningCountOf(st) == IF FalsyNumber(st.warningCount) THEN 0 ELSE st.warningCount[1]

\* count >= 2
HasPermanentRestrictions(st) == WarningCountOf(st) >= 2

\* getRestrictionMultiplier, in percent
GetRestrictionMultiplier(st) ==
    IF WarningCountOf(st) = 0 THEN 100
    ELSE IF WarningCountOf(st) = 1 THEN 75
    ELSE 50

\* an expiry test that still reports a cooldown at its expiry (used to test the model)
CooldownActiveInclusive(t, end) == t <= end

\* now < data.cooldownEnd
CooldownActive(t, end) == t < end

\* a set that writes a fixed counter instead of count + 1 (used to test the model)
EnableCooldownWriteFixed(st, end, reason, count) ==
    [st EXCEPT !.cooldownEnd = Some(end), !.cooldownReason = Some(reason),
               !.automationEnabled = FALSE, !.warningCount = Some(1)]

\* chrome.storage.local.set({cooldownEnd, cooldownReason, automationEnabled: false,
\*                           warningCount: count + 1})
EnableCooldownWrite(st, end, reason, count) ==
    [st EXCEPT !.cooldownEnd = Some(end), !.cooldownReason = Some(reason),
               !.automationEnabled = FALSE, !.warningCount = Some(count + 1)]

\* chrome.storage.local.remove(['cooldownEnd', 'cooldownReason'])
RemoveCooldown(st) ==
    [st EXCEPT !.cooldownEnd = Undefined, !.cooldownReason = Undefined]

NotInCooldown ==
    [inCooldown |-> FALSE, remainingTime |-> Undefined, reason |-> Undefined]

\* isInCooldown, first step: the call and its storage.get
IsInCooldownGet(c) ==
    /\ call[c] = Idle
    /\ call' = [call EXCEPT ![c] =
                   [op |-> "isInCooldown", pc |-> "check", before |-> storage,
                    data |-> [cooldownEnd |-> storage.cooldownEnd,
                              cooldownReason |-> storage.cooldownReason]]]
    /\ UNCHANGED <<now, storage, enablesDone, outsideCooldown>>

\* isInCooldown, after the get: no record, or Date.now() against the expiry
IsInCooldownCheck(c) ==
    /\ call[c].op = "isInCooldown" /\ call[c].pc = "check"
    /\ LET data == call[c].data IN
       call' = [call EXCEPT ![c] =
                  IF FalsyNumber(data.cooldownEnd)
                  THEN [call[c] EXCEPT !.pc = "done"]
                           @@ [checkedAt |-> now, result |-> NotInCooldown]
                  ELSE IF CooldownActive(now, data.cooldownEnd[1])
                  THEN [call[c] EXCEPT !.pc = "done"]
                           @@ [checkedAt |-> now,
                               result |-> [inCooldown |-> TRUE,
                                           remainingTime |-> Some(data.cooldownEnd[1] - now),
                                           reason |-> IF FalsyString(data.cooldownReason)
                                                      THEN Some(DefaultReason)
                                                      ELSE data.cooldownReason]]
                  ELSE [call[c] EXCEPT !.pc = "remove"] @@ [checkedAt |-> now]]
    /\ UNCHANGED <<now, storage, enablesDone, outsideCooldown>>

\* isInCooldown, the expired record is removed
IsInCooldownRemove(c) ==
    /\ call[c].op = "isInCooldown" /\ call[c].pc = "remove"
    /\ storage' = RemoveCooldown(storage)
    /\ call' = [call EXCEPT ![c] =
                   [call[c] EXCEPT !.pc = "done"] @@ [result |-> NotInCooldown]]
    /\ UNCHANGED <<now, enablesDone, outsideCooldown>>

\* enable48HourCooldown, first step: the expiry is computed, getWarningCount reads
Enable48HourCooldownGet(c, reason) ==
    /\ call[c] = Idle
    /\ WarningCountOf(storage) < MaxWarnings
    /\ call' = [call EXCEPT ![c] =
                   [op |-> "enable48HourCooldown", pc |-> "set", calledAt |-> now,
                    before |-> storage,
                    reason |-> reason, cooldownEnd |-> now + CooldownSeconds,
                    count |-> WarningCountOf(storage)]]
    /\ UNCHANGED <<now, storage, enablesDone, outsideCooldown>>

\* enable48HourCooldown, the set
Enable48HourCooldownSet(c) ==
    /\ call[c].op = "enable48HourCooldown" /\ call[c].pc = "set"
    /\ storage' = EnableCooldownWrite(storage, call[c].cooldownEnd, call[c].reason,
                                      call[c].count)
    /\ call' = [call EXCEPT ![c] = [call[c] EXCEPT !.pc = "done"]]
    /\ enablesDone' = enablesDone + 1
    /\ UNCHANGED <<now, outsideCooldown>>

\* StorageManager.isAutomationEnabled: the three flags, nothing else
IsAutomationEnabled(st) ==
    st.automationEnabled /\ ~st.automationPaused /\ ~st.emergencyStop

\* the key sessionState when it has never been set
AbsentSessionState == [undefined |-> TRUE]

\* StorageManager.getDefaultSessionState
DefaultSessionState(t) ==
    [actionsToday |-> 0, actionsThisSession |-> 0, isWarmupPhase |-> TRUE,
     sessionStartTime |-> t, speedMode |-> "SLOW"]

\* StorageManager.getSessionState: data.sessionState || default
GetSessionState(st, t) ==
    IF st.sessionState = AbsentSessionState THEN DefaultSessionState(t)
    ELSE st.sessionState

\* StorageManager.startNewSession
StartNewSession(st, t) ==
    [st EXCEPT !.sessionState = [GetSessionState(st, t) EXCEPT
                                    !.actionsThisSession = 0,
                                    !.sessionStartTime = t]]

\* StorageManager.resetDailyCounters
ResetDailyCountersWrite(st, t) ==
    [st EXCEPT !.sessionState = [GetSessionState(st, t) EXCEPT !.actionsToday = 0]]

\* chrome.storage.local of a fresh install: no key has been set (a flag that
\* is undefined reads as false everywhere)
FreshStorage ==
    [StorageDefaults EXCEPT !.warningCount = Undefined,
                            !.sessionState = AbsentSessionState]

\* initialize that writes the defaults whatever is stored (used to test the model)
InitializeWriteAlways(st, t) ==
    [st EXCEPT !.sessionState = DefaultSessionState(t),
               !.actionHistory = StorageDefaults.actionHistory,
               !.warningCount = Some(0),
               !.speedMode = "SLOW",
               !.automationEnabled = FALSE,
               !.automationPaused = FALSE,
               !.emergencyStop = FALSE]

\* StorageManager.initialize: the defaults are written when no sessionState
\* is stored, and nothing is written otherwise
InitializeWrite(st, t) ==
    IF st.sessionState = AbsentSessionState
    THEN [st EXCEPT !.sessionState = DefaultSessionState(t),
                    !.actionHistory = StorageDefaults.actionHistory,
                    !.warningCount = Some(0),
                    !.speedMode = "SLOW",
                    !.automationEnabled = FALSE,
                    !.automationPaused = FALSE,
                    !.emergencyStop = FALSE]
    ELSE st

\* StorageManager.setAutomationEnabled(enabled)
SetAutomationEnabledWrite(st, enabled, t) ==
    IF enabled THEN StartNewSession([st EXCEPT !.automationEnabled = TRUE], t)
    ELSE [st EXCEPT !.automationEnabled = FALSE]

\* a handler calls StorageManager.setAutomationEnabled(enabled)
SetAutomationEnabled(c, enabled) ==
    /\ call[c] = Idle
    /\ storage.automationEnabled # enabled
    /\ storage' = SetAutomationEnabledWrite(storage, enabled, now)
    /\ UNCHANGED <<now, call, enablesDone, outsideCooldown>>

\* the caller takes the result of a finished handler
HandlerReturn(c) ==
    /\ call[c] # Idle /\ call[c].pc = "done"
    /\ call' = [call EXCEPT ![c] = Idle]
    /\ UNCHANGED <<now, storage, enablesDone, outsideCooldown>>

\* time passes
Tick ==
    /\ now < MaxTicks * TickSeconds
    /\ now' = now + TickSeconds

\* handlers called one after the other: a handler starts when none is running
CooldownNext ==
    \/ \E c \in Contexts : AllIdle /\ IsInCooldownGet(c)
    \/ \E c \in Contexts : IsInCooldownCheck(c)
    \/ \E c \in Contexts : IsInCooldownRemove(c)
    \/ \E c \in Contexts, r \in ReasonSamples : AllIdle /\ Enable48HourCooldownGet(c, r)
    \/ \E c \in Contexts : Enable48HourCooldownSet(c)
    \/ \E c \in Contexts, b \in BOOLEAN : AllIdle /\ SetAutomationEnabled(c, b)
    \/ \E c \in Contexts : HandlerReturn(c)
    \/ Tick /\ UNCHANGED <<cooldownVars, outsideCooldown>>

\* handlers of the contexts running at the same time: each moves from one
\* await on chrome.storage.local to the next while the other is under way;
\* a handler takes milliseconds, the clock moves between handlers
ConcurrentNext ==
    \/ \E c \in Contexts : IsInCooldownGet(c)
    \/ \E c \in Contexts : IsInCooldownCheck(c)
    \/ \E c \in Contexts : IsInCooldownRemove(c)
    \/ \E c \in Contexts, r \in ReasonSamples :
          enablesDone < MaxWarnings /\ Enable48HourCooldownGet(c, r)
    \/ \E c \in Contexts : Enable48HourCooldownSet(c)
    \/ \E c \in Contexts : HandlerReturn(c)
    \/ AllIdle /\ Tick /\ UNCHANGED <<cooldownVars, outsideCooldown>>

(***************************************************************************)
(* DetectionSystem                                                         *)
(***************************************************************************)
AlertLevels == {"DEFCON1", "DEFCON2", "DEFCON3", "DEFCON4", "DEFCON5"}

\* baselinePerformance 'actionComplete', in ms
BaselineActionComplete == 2000

\* lastActionTimes keeps the last 20 timestamps
KeepLastActions == 20

\* 45 minutes (sessionHours > 0.75), in seconds
SessionLimitSeconds == 2700

Signal(kind, type, severity) == [kind |-> kind, type |-> type, severity |-> severity]

\* the page as detectDOMWarnings sees it: the number of (element, pattern) matches
\* under the warning selectors, a CAPTCHA marker, the action buttons and how
\* many of them are disabled, and whether the URL names a checkpoint
PageSamples ==
    [warnings : 0..1, captcha : BOOLEAN, buttons : {2}, disabled : {1, 2},
     checkpoint : BOOLEAN]

\* disabledCount > actionButtons.length * 0.5
DetectDisabledActions(page) == 2 * page.disabled > page.buttons

\* a checkpoint redirect reported one level lower (used to test the model)
DetectDOMWarningsCheckpointLow(page) ==
    [i \in 1..page.warnings |-> Signal("warning-pattern", "warning", "DEFCON5")]
    \o (IF page.captcha THEN <<Signal("captcha", "warning", "DEFCON5")>> ELSE <<>>)
    \o (IF DetectDisabledActions(page)
        THEN <<Signal("disabled-ui", "warning", "DEFCON4")>> ELSE <<>>)
    \o (IF page.checkpoint
        THEN <<Signal("checkpoint", "warning", "DEFCON4")>> ELSE <<>>)

\* detectDOMWarnings: the signals in the order they are pushed
DetectDOMWarnings(page) ==
    [i \in 1..page.warnings |-> Signal("warning-pattern", "warning", "DEFCON5")]
    \o (IF page.captcha THEN <<Signal("captcha", "warning", "DEFCON5")>> ELSE <<>>)
    \o (IF DetectDisabledActions(page)
        THEN <<Signal("disabled-ui", "warning", "DEFCON4")>> ELSE <<>>)
    \o (IF page.checkpoint
        THEN <<Signal("checkpoint", "warning", "DEFCON5")>> ELSE <<>>)

\* a counter that a success leaves alone (used to test the model)
NextConsecutiveFailuresNoReset(failures, actionSuccess) ==
    IF ~actionSuccess THEN failures + 1 ELSE failures

\* consecutiveFailures++ on a failure, = 0 on a success
NextConsecutiveFailures(failures, actionSuccess) ==
    IF ~actionSuccess THEN failures + 1 ELSE 0

\* the signals of detectBehavioralAnomalies, given the updated counter
BehavioralSignals(failures, actionDuration, actionSuccess) ==
    (IF failures >= 3
     THEN <<Signal("consecutive-failures", "error", "DEFCON4")>> ELSE <<>>)
    \o (IF actionDuration > BaselineActionComplete * 3
        THEN <<Signal("slow-action", "performance", "DEFCON4")>> ELSE <<>>)
    \o (IF actionSuccess /\ actionDuration < 500
        THEN <<Signal("fast-success", "pattern", "DEFCON3")>> ELSE <<>>)

\* getDailyLimit
GetDailyLimit(session) == IF session.isWarmupPhase THEN 25 ELSE 100

RECURSIVE SumSeq(_)
SumSeq(xs) == IF xs = <<>> THEN 0 ELSE Head(xs) + SumSeq(Tail(xs))

\* intervals[i-1] = lastActionTimes[i] - lastActionTimes[i-1]
Intervals(times) == [i \in 1..(Len(times) - 1) |-> times[i + 1] - times[i]]

Squares(xs) == [i \in 1..Len(xs) |-> xs[i] * xs[i]]

\* stdDev < avgInterval * 0.15 over the intervals, in exact arithmetic: with n
\* intervals of sum S and sum of squares Q, avg = S/n and variance = (nQ - S*S)/(n*n),
\* so for S > 0 the test is 400 * (nQ - S*S) < 9 * S*S (taken with a division
\* to stay within 32 bits); for S <= 0 no standard deviation is below avg * 0.15
StdDevBelowPercentOfMean(intervals, num, den) ==
    LET n == Len(intervals)
        S == SumSeq(intervals)
        Q == SumSeq(Squares(intervals))
    IN  /\ S > 0
        /\ n * Q - S * S <= (num * S * S - 1) \div den

\* a detector that needs six recorded timestamps (used to test the model)
TimingTooConsistentSixTimes(times) ==
    /\ Len(times) >= 6
    /\ StdDevBelowPercentOfMean(Intervals(times), 9, 400)

\* lastActionTimes.length >= 5 and stdDev < avgInterval * 0.15
TimingTooConsistent(times) ==
    /\ Len(times) >= 5
    /\ StdDevBelowPercentOfMean(Intervals(times), 9, 400)

DetectPatternRisks(session, times, t) ==
    (IF 10 * session.actionsToday >= 9 * GetDailyLimit(session)
     THEN <<Signal("daily-limit", "pattern", "DEFCON2")>> ELSE <<>>)
    \o (IF t - session.sessionStartTime > SessionLimitSeconds
        THEN <<Signal("session-duration", "pattern", "DEFCON2")>> ELSE <<>>)
    \o (IF TimingTooConsistent(times)
        THEN <<Signal("timing-consistent", "pattern", "DEFCON3")>> ELSE <<>>)

GetAlertLevelPriority(level) ==
    CASE level = "DEFCON1" -> 1
      [] level = "DEFCON2" -> 2
      [] level = "DEFCON3" -> 3
      [] level = "DEFCON4" -> 4
      [] level = "DEFCON5" -> 5

\* an aggregation that keeps the severity of the last signal (used to test the model)
RECURSIVE OverallAlertLevelLast(_, _)
OverallAlertLevelLast(alertLevel, signals) ==
    IF signals = <<>> THEN alertLevel
    ELSE OverallAlertLevelLast(Head(signals).severity, Tail(signals))

\* the loop over allSignals, starting from alertLevel
RECURSIVE OverallAlertLevel(_, _)
OverallAlertLevel(alertLevel, signals) ==
    IF signals = <<>> THEN alertLevel
    ELSE OverallAlertLevel(
             IF GetAlertLevelPriority(Head(signals).severity)
                    > GetAlertLevelPriority(alertLevel)
             THEN Head(signals).severity ELSE alertLevel,
             Tail(signals))

RecommendedAction(alertLevel) ==
    IF alertLevel = "DEFCON5" THEN "STOP"
    ELSE IF alertLevel = "DEFCON4" THEN "PAUSE"
    ELSE IF alertLevel = "DEFCON3" \/ alertLevel = "DEFCON2" THEN "SLOW_DOWN"
    ELSE "CONTINUE"

\* the last three outcomes, the newest last
Remember(recent, actionSuccess) ==
    LET all == Append(recent, actionSuccess)
    IN  IF Len(all) > 3 THEN Tail(all) ELSE all

\* durations of an action in ms: around the 500 ms and the 3 x baseline thresholds
DurationSamples == {100, 2000, 7000}

\* seconds between two recorded actions
ScanIntervalSamples == {30}

PatternIntervalSamples == {20, 30, 40}

\* the session state handed to the detector: a session that has just started
\* or one that started more than 45 minutes ago
SessionStateSamples ==
    [actionsToday : {0, 14, 23, 90}, actionsThisSession : {0}, isWarmupPhase : BOOLEAN,
     sessionStartTime : {now, now - SessionLimitSeconds - 1}, speedMode : {"SLOW"}]

\* timestamps of KeepLastActions actions 30 s apart, the last one at now
RegularHistory == [i \in 1..KeepLastActions |-> now - 30 * (KeepLastActions - i)]

DetectInit ==
    /\ consecutiveFailures = 0
    /\ lastActionTimes = <<>>
    /\ detectCall = NoCall
    /\ recentOutcomes = <<>>
    /\ recordsMade = 0

\* detector.recordActionTime(Date.now()), dt seconds after the previous step
RecordActionTime(dt, limit) ==
    /\ detectCall = NoCall
    /\ recordsMade < limit
    /\ now' = now + dt
    /\ lastActionTimes' =
           LET pushed == Append(lastActionTimes, now')
           IN  IF Len(pushed) > KeepLastActions THEN Tail(pushed) ELSE pushed
    /\ recordsMade' = recordsMade + 1
    /\ UNCHANGED <<consecutiveFailures, detectCall, recentOutcomes, outsideDetect>>

\* detector.detectBehavioralAnomalies(actionDuration, actionSuccess)
DetectBehavioralAnomaliesCall(actionDuration, actionSuccess) ==
    /\ detectCall = NoCall
    /\ actionSuccess \/ consecutiveFailures < MaxFailures
    /\ consecutiveFailures' = NextConsecutiveFailures(consecutiveFailures, actionSuccess)
    /\ recentOutcomes' = Remember(recentOutcomes, actionSuccess)
    /\ detectCall' = [op |-> "detectBehavioralAnomalies",
                      reported |-> TRUE,
                      signals |-> BehavioralSignals(consecutiveFailures',
                                      actionDuration, actionSuccess)]
    /\ UNCHANGED <<now, lastActionTimes, recordsMade, outsideDetect>>

\* detector.detectPatternRisks()
DetectPatternRisksCall ==
    /\ detectCall = NoCall
    /\ detectCall' = [op |-> "detectPatternRisks",
                      reported |-> FALSE,
                      signals |-> DetectPatternRisks(sessionState, lastActionTimes, now)]
    /\ UNCHANGED <<now, consecutiveFailures, lastActionTimes, recentOutcomes,
                   recordsMade, outsideDetect>>

\* detector.performFullScan(lastActionDuration?, lastActionSuccess?) on a page;
\* outcome is <<>> (no arguments) or <<duration, success>>
PerformFullScan(page, outcome) ==
    /\ detectCall = NoCall
    /\ outcome # <<>> => (outcome[2] \/ consecutiveFailures < MaxFailures)
    /\ consecutiveFailures' =
           IF outcome = <<>> THEN consecutiveFailures
           ELSE NextConsecutiveFailures(consecutiveFailures, outcome[2])
    /\ recentOutcomes' =
           IF outcome = <<>> THEN recentOutcomes
           ELSE Remember(recentOutcomes, outcome[2])
    /\ LET allSignals ==
               DetectDOMWarnings(page)
               \o (IF outcome = <<>> THEN <<>>
                   ELSE BehavioralSignals(consecutiveFailures', outcome[1], outcome[2]))
               \o DetectPatternRisks(sessionState, lastActionTimes, now)
           alertLevel == OverallAlertLevel("DEFCON1", allSignals)
       IN  detectCall' = [op |-> "performFullScan",
                          settled |-> "fulfilled",
                          reported |-> outcome # <<>>,
                          detected |-> Len(allSignals) > 0,
                          signals |-> allSignals,
                          recommendedAction |-> RecommendedAction(alertLevel),
                          alertLevel |-> alertLevel]
    /\ UNCHANGED <<now, lastActionTimes, recordsMade, outsideDetect>>

\* performFullScan when a DOM access of detectDOMWarnings throws: neither
\* detectDOMWarnings nor performFullScan has a try/catch, so the later tiers
\* do not run and the promise of performFullScan is rejected
PerformFullScanDomThrows(outcome) ==
    /\ detectCall = NoCall
    /\ detectCall' = [op |-> "performFullScan",
                      settled |-> "rejected",
                      failedTier |-> "dom",
                      reported |-> FALSE,
                      hadOutcome |-> outcome # <<>>]
    /\ UNCHANGED <<now, consecutiveFailures, lastActionTimes, recentOutcomes,
                   recordsMade, outsideDetect>>

\* the caller has consumed the result of the call
DetectReturn ==
    /\ detectCall # NoCall
    /\ detectCall' = NoCall
    /\ UNCHANGED <<now, consecutiveFailures, lastActionTimes, recentOutcomes,
                   recordsMade, outsideDetect>>

OutcomeSamples == {<<>>} \cup (DurationSamples \X BOOLEAN)

\* scans and outcome reports between recorded actions
DetectNext ==
    \/ \E dt \in ScanIntervalSamples : RecordActionTime(dt, MaxScanRecords)
    \/ /\ detectCall = NoCall
       /\ \E d \in DurationSamples, ok \in BOOLEAN : DetectBehavioralAnomaliesCall(d, ok)
    \/ /\ detectCall = NoCall
       /\ \E page \in PageSamples, outcome \in OutcomeSamples :
             PerformFullScan(page, outcome)
    \/ DetectReturn

\* scans on a page whose DOM may fail under the appearance tier
ScanFailureNext ==
    \/ DetectNext
    \/ /\ detectCall = NoCall
       /\ \E outcome \in OutcomeSamples : PerformFullScanDomThrows(outcome)

\* the pattern tier between recorded actions
PatternNext ==
    \/ \E dt \in PatternIntervalSamples : RecordActionTime(dt, MaxPatternRecords)
    \/ DetectPatternRisksCall
    \/ DetectReturn

(***************************************************************************)
(* ResponseProtocol.  The helpers issue their storage writes and messages  *)
(* without awaiting anything, so one call runs to its end in one step.     *)
(* Multipliers are held in tenths: 3.0 is 30, 0.5 is 5.                    *)
(***************************************************************************)
\* scheduleBreak(10 * 60 * 1000), in seconds
BreakSeconds == 600

\* chrome.storage.local.set({ automationEnabled: false, emergencyStop: true })
StopAllAutomation(st) ==
    [st EXCEPT !.automationEnabled = FALSE, !.emergencyStop = TRUE]

\* chrome.storage.local.set({ cooldownEnd: Date.now() + duration, automationEnabled: false })
EnableCooldown(st, t, duration) ==
    [st EXCEPT !.cooldownEnd = Some(t + duration), !.automationEnabled = FALSE]

\* chrome.storage.local.set({ automationPaused: true })
PauseAutomation(st) == [st EXCEPT !.automationPaused = TRUE]

AdjustDelays(st, multiplier) == [st EXCEPT !.delayMultiplier = Some(multiplier)]

AdjustBatchSize(st, multiplier) == [st EXCEPT !.batchSizeMultiplier = Some(multiplier)]

SkipNextActions(st, count) == [st EXCEPT !.skipNextActions = Some(count)]

ScheduleBreak(st, t, duration) == [st EXCEPT !.breakUntil = Some(t + duration)]

IncreaseRandomization(st) == [st EXCEPT !.randomizationMultiplier = Some(20)]

Message(type) == [type |-> type]

MessageWithSignals(type, signals) == [type |-> type, signals |-> signals]

\* each handler: the storage it leaves and the messages it sends, in order
HandleDEFCON5(st, t, signals) ==
    [storage |-> EnableCooldown(StopAllAutomation(st), t, CooldownSeconds),
     sent |-> <<Message("STOP_AUTOMATION"),
                MessageWithSignals("SHOW_EMERGENCY_MODAL", signals)>>]

HandleDEFCON4(st, t, signals) ==
    [storage |-> AdjustBatchSize(AdjustDelays(PauseAutomation(st), 30), 5),
     sent |-> <<Message("PAUSE_AUTOMATION"), MessageWithSignals("SHOW_WARNING", signals)>>]

HandleDEFCON3(st, t, signals) ==
    [storage |-> SkipNextActions(AdjustDelays(st, 15), 2),
     sent |-> <<Message("SHOW_INFO")>>]

HandleDEFCON2(st, t, signals) ==
    [storage |-> IncreaseRandomization(ScheduleBreak(st, t, BreakSeconds)),
     sent |-> <<Message("SHOW_INFO")>>]

\* the switch with the break after the DEFCON4 case missing
ExecuteResponseFallThrough(alertLevel, st, t, signals) ==
    CASE alertLevel = "DEFCON5" -> HandleDEFCON5(st, t, signals)
      [] alertLevel = "DEFCON4" ->
            LET first == HandleDEFCON4(st, t, signals)
                second == HandleDEFCON3(first.storage, t, signals)
            IN  [storage |-> second.storage, sent |-> first.sent \o second.sent]
      [] alertLevel = "DEFCON3" -> HandleDEFCON3(st, t, signals)
      [] alertLevel = "DEFCON2" -> HandleDEFCON2(st, t, signals)
      [] OTHER -> [storage |-> st, sent |-> <<>>]

\* executeResponse(alertLevel, signals) on storage st at time t
ExecuteResponse(alertLevel, st, t, signals) ==
    CASE alertLevel = "DEFCON5" -> HandleDEFCON5(st, t, signals)
      [] alertLevel = "DEFCON4" -> HandleDEFCON4(st, t, signals)
      [] alertLevel = "DEFCON3" -> HandleDEFCON3(st, t, signals)
      [] alertLevel = "DEFCON2" -> HandleDEFCON2(st, t, signals)
      [] OTHER -> [storage |-> st, sent |-> <<>>]

\* the signals handed over: none, or one warning
ResponseSignalSamples == {<<>>, <<Signal("captcha", "warning", "DEFCON5")>>}

ResponseInit == responseCall = NoCall

ExecuteResponseCall(alertLevel, signals) ==
    /\ responseCall = NoCall
    /\ LET effect == ExecuteResponse(alertLevel, storage, now, signals)
       IN  /\ storage' = effect.storage
           /\ responseCall' = [op |-> "executeResponse",
                               alertLevel |-> alertLevel,
                               calledAt |-> now,
                               before |-> storage,
                               sent |-> effect.sent]
    /\ UNCHANGED <<now, outsideResponse>>

ResponseReturn ==
    /\ responseCall # NoCall
    /\ responseCall' = NoCall
    /\ UNCHANGED <<now, storage, outsideResponse>>

ResponseTick ==
    /\ responseCall = NoCall
    /\ Tick
    /\ UNCHANGED <<storage, responseCall, outsideResponse>>

ResponseNext ==
    \/ /\ responseCall = NoCall
       /\ \E level \in AlertLevels, signals \in ResponseSignalSamples :
             ExecuteResponseCall(level, signals)
    \/ ResponseReturn
    \/ ResponseTick

\* one firing of the 10 s timer of startPassiveMonitoring: detectDOMWarnings
\* and, when there are signals, executeResponse(signals[0].severity, signals)
PassiveScan(page) ==
    /\ responseCall = NoCall
    /\ DetectDOMWarnings(page) # <<>>
    /\ LET signals == DetectDOMWarnings(page)
           effect == ExecuteResponse(signals[1].severity, storage, now, signals)
       IN  /\ storage' = effect.storage
           /\ responseCall' = [op |-> "passiveScan",
                               signals |-> signals,
                               alertLevel |-> signals[1].severity,
                               calledAt |-> now,
                               before |-> storage,
                               sent |-> effect.sent]
    /\ UNCHANGED <<now, outsideResponse>>

PassiveNext ==
    \/ \E page \in PageSamples : PassiveScan(page)
    \/ ResponseReturn
    \/ ResponseTick

(***************************************************************************)
(* HumanizationEngine: the delay between two actions                       *)
(***************************************************************************)
\* The engine computes in floating-point milliseconds.  The model computes
\* the same quantities exactly, as integers in fractions of a millisecond:
\* the variation (30% of a whole number of ms) in tenths, the fatigue
\* multiplier in twentieths, the rhythm multiplier in tenths.
TenthsPerMs == 10

FatigueDenominator == 20

RhythmDenominator == 10

\* a delay is held in units of 1 / UnitsPerMs ms
UnitsPerMs == TenthsPerMs * FatigueDenominator * RhythmDenominator

\* Math.max(delay, 15000)
MinActionDelay == 15000

\* getTimingConfig().baseDelay, in ms
BaseDelay(speedMode) ==
    CASE speedMode = "ULTRA_SLOW" -> <<45000, 75000>>
      [] speedMode = "SLOW" -> <<35000, 55000>>
      [] speedMode = "MEDIUM" -> <<25000, 45000>>
      [] speedMode = "NORMAL" -> <<20000, 40000>>

\* calculateFatigueMultiplier with the 31..40 band answering 1.1
CalculateFatigueMultiplierDip(actionsThisSession) ==
    IF actionsThisSession <= 10 THEN 20
    ELSE IF actionsThisSession <= 20 THEN 22
    ELSE IF actionsThisSession <= 30 THEN 25
    ELSE IF actionsThisSession <= 40 THEN 22
    ELSE 30

\* calculateFatigueMultiplier: 1.0, 1.1, 1.25, 1.4, 1.5 in twentieths
CalculateFatigueMultiplier(actionsThisSession) ==
    IF actionsThisSession <= 10 THEN 20
    ELSE IF actionsThisSession <= 20 THEN 22
    ELSE IF actionsThisSession <= 30 THEN 25
    ELSE IF actionsThisSession <= 40 THEN 28
    ELSE 30

\* calculateDailyRhythmMultiplier: 1.0, 1.3, 1.0, 1.2, 1.4, 2.0 in tenths
CalculateDailyRhythmMultiplier(hour) ==
    IF hour >= 9 /\ hour < 11 THEN 10
    ELSE IF hour >= 11 /\ hour < 13 THEN 13
    ELSE IF hour >= 13 /\ hour < 15 THEN 10
    ELSE IF hour >= 15 /\ hour < 17 THEN 12
    ELSE IF hour >= 17 /\ hour < 21 THEN 14
    ELSE 20

MathMax(a, b) == IF a >= b THEN a ELSE b

\* Math.ceil(Math.log2(range) / 8) for a range of more than one ms, the range
\* given in units of 1 / unit ms: the least k with 256^k >= range / unit
BytesNeeded(range, unit) ==
    IF range <= 256 * unit THEN 1
    ELSE IF range <= 256 * 256 * unit THEN 2
    ELSE 3

RECURSIVE RandomValue(_, _)
\* randomValue = (randomValue << 8) + randomBytes[i] over the first n bytes
RandomValue(randomBytes, n) ==
    IF n = 0 THEN 0
    ELSE RandomValue(randomBytes, n - 1) * 256 + randomBytes[n]

\* cryptoRandomRange(min, max) = min + (randomValue % range), with min and max
\* given in units of 1 / unit ms and the result in the same units
CryptoRandomRange(min, max, randomBytes, unit) ==
    LET range == max - min
        randomValue == RandomValue(randomBytes, BytesNeeded(range, unit))
    IN  min + ((unit * randomValue) % range)

\* the delay of calculateActionDelay before the final Math.max, in units of
\* 1 / UnitsPerMs ms; draws are the bytes of the three getRandomValues calls
EntropicDelay(session, hour, draws) ==
    LET base == BaseDelay(session.speedMode)
        delay == CryptoRandomRange(base[1], base[2], draws[1], 1)
        variation == 3 * delay
        varied == TenthsPerMs * delay
                     + CryptoRandomRange(-variation, variation, draws[2], TenthsPerMs)
        fatigueMultiplier == CalculateFatigueMultiplier(session.actionsThisSession)
        rhythmMultiplier == CalculateDailyRhythmMultiplier(hour)
        entropy == CryptoRandomRange(-2000, 2000, draws[3], 1)
    IN  varied * fatigueMultiplier * rhythmMultiplier + UnitsPerMs * entropy

CalculateActionDelayUnclamped(session, hour, draws) ==
    EntropicDelay(session, hour, draws)

CalculateActionDelay(session, hour, draws) ==
    MathMax(EntropicDelay(session, hour, draws), UnitsPerMs * MinActionDelay)

\* the values a random byte takes in the model: 0, 255 and evenly spaced between
ByteSamples == {(255 * i) \div NumByteSamples : i \in 0..NumByteSamples}

\* the bytes drawn by one call: three getRandomValues calls of two bytes
RandomDraws == [1..3 -> [1..2 -> ByteSamples]]

Hours == 0..23

\* actionsThisSession on both sides of every fatigue threshold
ActionsThisSessionSamples == {0, 10, 11, 20, 21, 30, 31, 40, 41, 100}

\* the session state handed to the engine's constructor
TimingSessionSamples ==
    [actionsToday : {0}, actionsThisSession : ActionsThisSessionSamples,
     isWarmupPhase : {TRUE}, sessionStartTime : {now}, speedMode : SpeedModes]

TimingInit == timingCall = NoCall

CalculateActionDelayCall(hour, draws) ==
    /\ timingCall = NoCall
    /\ timingCall' = [op |-> "calculateActionDelay",
                      hour |-> hour,
                      fatigueMultiplier |->
                          CalculateFatigueMultiplier(sessionState.actionsThisSession),
                      entropic |-> EntropicDelay(sessionState, hour, draws),
                      result |-> CalculateActionDelay(sessionState, hour, draws)]
    /\ UNCHANGED outsideTiming

TimingReturn ==
    /\ timingCall # NoCall
    /\ timingCall' = NoCall
    /\ UNCHANGED outsideTiming

\* getTimingConfig().breaks: mini and medium in minutes, sessionEnd in actions
BreaksConfig(speedMode) ==
    CASE speedMode = "ULTRA_SLOW" -> [mini |-> <<5, 8>>, medium |-> <<15, 25>>, sessionEnd |-> 20]
      [] speedMode = "SLOW" -> [mini |-> <<3, 5>>, medium |-> <<10, 18>>, sessionEnd |-> 30]
      [] speedMode = "MEDIUM" -> [mini |-> <<2, 4>>, medium |-> <<8, 15>>, sessionEnd |-> 40]
      [] speedMode = "NORMAL" -> [mini |-> <<2, 4>>, medium |-> <<8, 15>>, sessionEnd |-> 50]

\* sessionHours >= 1, the clock in seconds
SessionHourSeconds == 3600

MinuteMs == 60 * 1000

\* randomRange(25, 30) and randomRange(8, 12): every value of the closed range
MediumEveryDraws == 25..30

MiniEveryDraws == 8..12

\* the bytes of the one getRandomValues call that draws the duration
BreakDraws == [1..3 -> ByteSamples]

\* the session-end test with both conditions required
SessionEndDueBoth(actions, sessionEnd, sessionSeconds) ==
    actions >= sessionEnd /\ sessionSeconds >= SessionHourSeconds

\* actions >= config.breaks.sessionEnd || sessionHours >= 1
SessionEndDue(actions, sessionEnd, sessionSeconds) ==
    actions >= sessionEnd \/ sessionSeconds >= SessionHourSeconds

\* actions > 0 && actions % randomRange(..) === 0
BreakDue(actions, every) == actions > 0 /\ actions % every = 0

\* the order of the tests with mini tried before medium
BreakTypeMiniFirst(sessionEndDue, mediumDue, miniDue) ==
    IF sessionEndDue THEN "session-end"
    ELSE IF miniDue THEN "mini"
    ELSE IF mediumDue THEN "medium"
    ELSE "null"

\* the order of the three tests of shouldTakeBreak, and null when none holds
BreakType(sessionEndDue, mediumDue, miniDue) ==
    IF sessionEndDue THEN "session-end"
    ELSE IF mediumDue THEN "medium"
    ELSE IF miniDue THEN "mini"
    ELSE "null"

\* shouldTakeBreak() at time t; mediumEvery and miniEvery are the results of
\* the two randomRange calls, randomBytes those of the cryptoRandomRange call
ShouldTakeBreak(session, t, mediumEvery, miniEvery, randomBytes) ==
    LET actions == session.actionsThisSession
        config == BreaksConfig(session.speedMode)
        type == BreakType(SessionEndDue(actions, config.sessionEnd, t - session.sessionStartTime),
                          BreakDue(actions, mediumEvery), BreakDue(actions, miniEvery))
    IN  IF type = "session-end"
            THEN [needed |-> TRUE, type |-> type,
                  duration |-> CryptoRandomRange(2 * 60 * MinuteMs, 4 * 60 * MinuteMs,
                                                 randomBytes, 1)]
        ELSE IF type = "medium"
            THEN [needed |-> TRUE, type |-> type,
                  duration |-> CryptoRandomRange(config.medium[1] * MinuteMs,
                                                 config.medium[2] * MinuteMs, randomBytes, 1)]
        ELSE IF type = "mini"
            THEN [needed |-> TRUE, type |-> type,
                  duration |-> CryptoRandomRange(config.mini[1] * MinuteMs,
                                                 config.mini[2] * MinuteMs, randomBytes, 1)]
        ELSE [needed |-> FALSE, type |-> "null", duration |-> 0]

\* the session state handed to the engine's constructor: every count up to
\* MaxSessionActions, a session just started, one second short of an hour old,
\* and an hour old
BreakSessionSamples ==
    [actionsToday : {0}, actionsThisSession : 0..MaxSessionActions,
     isWarmupPhase : {TRUE},
     sessionStartTime : {now, now - SessionHourSeconds + 1, now - SessionHourSeconds},
     speedMode : SpeedModes]

ShouldTakeBreakCall(mediumEvery, miniEvery, randomBytes) ==
    /\ timingCall = NoCall
    /\ timingCall' = [op |-> "shouldTakeBreak",
                      mediumEvery |-> mediumEvery,
                      miniEvery |-> miniEvery,
                      result |-> ShouldTakeBreak(sessionState, now, mediumEvery, miniEvery,
                                                 randomBytes)]
    /\ UNCHANGED outsideTiming

BreakNext ==
    \/ /\ timingCall = NoCall
       /\ \E mediumEvery \in MediumEveryDraws, miniEvery \in MiniEveryDraws,
             randomBytes \in BreakDraws :
             ShouldTakeBreakCall(mediumEvery, miniEvery, randomBytes)
    \/ TimingReturn

TimingNext ==
    \/ /\ timingCall = NoCall
       /\ \E hour \in Hours, draws \in RandomDraws : CalculateActionDelayCall(hour, draws)
    \/ TimingReturn

(***************************************************************************)
(* HumanizationEngine.simulateTyping.  A text is a sequence of characters, *)
(* the call moves from one await to the next; the sleeps after punctuation *)
(* and the "rethinking" pause change nothing and are left out.             *)
(***************************************************************************)
RECURSIVE SplitFrom(_, _, _)
\* text.split(' ') from position k on, word being the characters collected so far
SplitFrom(text, k, word) ==
    IF k > Len(text) THEN <<word>>
    ELSE IF text[k] = " " THEN <<word>> \o SplitFrom(text, k + 1, <<>>)
    ELSE SplitFrom(text, k + 1, Append(word, text[k]))

Split(text) == SplitFrom(text, 1, <<>>)

RECURSIVE Join(_)
\* words.join(' ')
Join(words) ==
    IF words = <<>> THEN <<>>
    ELSE IF Len(words) = 1 THEN words[1]
    ELSE words[1] \o <<" ">> \o Join(Tail(words))

\* wordsArray.pop()
Pop(words) == IF words = <<>> THEN <<>> ELSE SubSeq(words, 1, Len(words) - 1)

\* the texts typed: one of two words, one of six, one of seven with a double space
TypingTextSamples ==
    {Join(<<<<"h", "i">>, <<"a">>>>),
     Join(<<<<"a">>, <<"b", "c">>, <<"d">>, <<"e">>, <<"f">>, <<"g">>>>),
     Join(<<<<"a">>, <<>>, <<"b">>, <<"c">>, <<"d">>, <<"e">>, <<"f", "g">>>>)}

\* getRandomChar(): a letter, which may be the right one
WrongCharSamples == {"a", "x", "q"}

\* this.randomRange(1, 3)
DeleteCountDraws == 1..3

IsTyping(pc) == timingCall.op = "simulateTyping" /\ timingCall.pc = pc

\* where the loops stand before word i: at its first character, or at its end
WordStart(words, i) == IF words[i] = <<>> THEN "space" ELSE "char"

\* simulateTyping(text, targetElement) up to the first character
SimulateTypingCall(text) ==
    /\ timingCall = NoCall
    /\ timingCall' = [op |-> "simulateTyping", pc |-> WordStart(Split(text), 1),
                      text |-> text, words |-> Split(text), i |-> 1, j |-> 1,
                      currentText |-> <<>>, value |-> <<>>,
                      wordsArray |-> <<>>, deleteCount |-> 0]
    /\ UNCHANGED outsideTiming

\* Math.random() < typoRate: the wrong character is typed and shown
TypeWrongChar(wrongChar) ==
    /\ IsTyping("char")
    /\ timingCall' = [timingCall EXCEPT
                         !.currentText = Append(@, wrongChar),
                         !.value = Append(timingCall.currentText, wrongChar),
                         !.pc = "backspace"]
    /\ UNCHANGED outsideTiming

\* currentText.slice(0, -1), shown
Backspace ==
    /\ IsTyping("backspace")
    /\ timingCall' = [timingCall EXCEPT
                         !.currentText = Pop(@),
                         !.value = Pop(timingCall.currentText),
                         !.pc = "retype"]
    /\ UNCHANGED outsideTiming

\* the correct character is typed and shown; the inner loop goes on
TypeChar ==
    /\ IsTyping("char") \/ IsTyping("retype")
    /\ LET tc == timingCall
           typed == Append(tc.currentText, tc.words[tc.i][tc.j])
       IN  timingCall' = [tc EXCEPT
                             !.currentText = typed,
                             !.value = typed,
                             !.j = @ + 1,
                             !.pc = IF tc.j < Len(tc.words[tc.i]) THEN "char" ELSE "space"]
    /\ UNCHANGED outsideTiming

\* after a word: the space unless it was the last word, then the next word
EndOfWord ==
    /\ IsTyping("space")
    /\ LET tc == timingCall
       IN  IF tc.i < Len(tc.words)
           THEN timingCall' = [tc EXCEPT
                                  !.currentText = Append(@, " "),
                                  !.value = Append(tc.currentText, " "),
                                  !.i = @ + 1,
                                  !.j = 1,
                                  !.pc = WordStart(tc.words, tc.i + 1)]
           ELSE timingCall' = [tc EXCEPT !.pc = "end"]
    /\ UNCHANGED outsideTiming

\* Math.random() >= 0.02 or at most five words: the call is over
FinishTyping ==
    /\ IsTyping("end")
    /\ timingCall' = [timingCall EXCEPT !.pc = "done"]
    /\ UNCHANGED outsideTiming

\* Math.random() < 0.02 && words.length > 5: the excursion starts
StartDeletion(deleteCount) ==
    /\ IsTyping("end")
    /\ Len(timingCall.words) > 5
    /\ timingCall' = [timingCall EXCEPT
                         !.wordsArray = Split(timingCall.currentText),
                         !.deleteCount = deleteCount,
                         !.pc = "delete"]
    /\ UNCHANGED outsideTiming

\* one round of the deleting loop; after the last one the method sleeps and
\* returns ("would retype here")
DeleteWord ==
    /\ IsTyping("delete")
    /\ LET tc == timingCall
       IN  timingCall' = [tc EXCEPT
                             !.wordsArray = Pop(@),
                             !.value = Join(Pop(tc.wordsArray)),
                             !.deleteCount = @ - 1,
                             !.pc = IF tc.deleteCount > 1 THEN "delete" ELSE "done"]
    /\ UNCHANGED outsideTiming

TypingReturn == IsTyping("done") /\ TimingReturn

TypingNext ==
    \/ \E text \in TypingTextSamples : SimulateTypingCall(text)
    \/ \E wrongChar \in WrongCharSamples : TypeWrongChar(wrongChar)
    \/ Backspace
    \/ TypeChar
    \/ EndOfWord
    \/ FinishTyping
    \/ \E deleteCount \in DeleteCountDraws : StartDeletion(deleteCount)
    \/ DeleteWord
    \/ TypingReturn

(***************************************************************************)
(* HumanizationEngine.generateCursorPath.  Math.random() is r / RandomSteps *)
(* for a whole r; the fractions handed to randomRange and the control      *)
(* points are held in tenths.                                              *)
(***************************************************************************)
\* randomRange(min, max) = Math.floor(Math.random() * (max - min + 1)) + min,
\* for min and max given in tenths and the result in tenths
RandomRangeTenths(minTenths, maxTenths, r) ==
    10 * ((r * (maxTenths - minTenths + 10)) \div (10 * RandomSteps)) + minTenths

\* start + (end - start) * factor, in tenths
ControlPoint(start, end, factorTenths) == 10 * start + (end - start) * factorTenths

\* 20 * steps^3 times the Bezier coordinate at t = i / steps
BezierNumerator(start, cp1Tenths, cp2Tenths, end, i, steps) ==
    2 * ( (steps - i) * (steps - i) * (steps - i) * 10 * start
        + 3 * (steps - i) * (steps - i) * i * cp1Tenths
        + 3 * (steps - i) * i * i * cp2Tenths
        + i * i * i * 10 * end )

\* Math.round of the Bezier coordinate: the floor of the coordinate plus 1/2
BezierPoint(start, cp1Tenths, cp2Tenths, end, i, steps) ==
    (BezierNumerator(start, cp1Tenths, cp2Tenths, end, i, steps)
        + 10 * steps * steps * steps) \div (20 * steps * steps * steps)

\* generateCursorPath(startX, startY, endX, endY, steps) with the four draws
GenerateCursorPath(startX, startY, endX, endY, steps, draws) ==
    LET cp1x == ControlPoint(startX, endX, RandomRangeTenths(2, 4, draws[1]))
        cp1y == ControlPoint(startY, endY, RandomRangeTenths(2, 4, draws[2]))
        cp2x == ControlPoint(startX, endX, RandomRangeTenths(6, 8, draws[3]))
        cp2y == ControlPoint(startY, endY, RandomRangeTenths(6, 8, draws[4]))
    IN  [cp1 |-> [x |-> cp1x, y |-> cp1y],
         cp2 |-> [x |-> cp2x, y |-> cp2y],
         path |-> [n \in 1..(steps + 1) |->
                      [x |-> BezierPoint(startX, cp1x, cp2x, endX, n - 1, steps),
                       y |-> BezierPoint(startY, cp1y, cp2y, endY, n - 1, steps)]]]

GenerateCursorPathCall(from, to, steps, draws) ==
    /\ timingCall = NoCall
    /\ timingCall' = [op |-> "generateCursorPath",
                      start |-> from, end |-> to, draws |-> draws,
                      result |-> GenerateCursorPath(from.x, from.y, to.x, to.y, steps, draws)]
    /\ UNCHANGED outsideTiming

\* the corners of a feed post and a button in it
CursorPointSamples == {[x |-> 0, y |-> 0], [x |-> 100, y |-> 40]}

\* the default number of steps
CursorSteps == 20

CursorNext ==
    \/ /\ timingCall = NoCall
       /\ \E from \in CursorPointSamples, to \in CursorPointSamples,
             draws \in [1..4 -> 0..(RandomSteps - 1)] :
             GenerateCursorPathCall(from, to, CursorSteps, draws)
    \/ TimingReturn

(***************************************************************************)
(* AutomationController (content/content-script.ts), one per open page,    *)
(* with the popup and service-worker handlers that switch automation.      *)
(* An activation of automationLoop moves from await to await; the waits    *)
(* themselves take no modelled time, the clock moves by LoopTick only.     *)
(***************************************************************************)
Pages == {"page-1", "page-2"}

\* activations of automationLoop a page can have at once in the model
MaxActivations == 2

Slots == 1..MaxActivations

\* restart timers (setTimeout of a mini or medium break) pending per page
MaxTimers == 1

\* messages sent to a page and not yet handled
MaxInbox == 1

\* posts a page decides on in one behaviour
MaxDecisions == 1

\* days the clock of the loop model runs
MaxLoopDays == 1

\* cooldowns the service worker opens in one behaviour
MaxLoopCooldowns == 1

\* new Date().setHours(0, 0, 0, 0): the day a timestamp falls on
CalendarDay(t) == t \div DaySeconds

\* actionHistory, as far as the counters of today read it: the day of its
\* latest entries and how many of them there are
EmptyHistory == [day |-> 0, total |-> 0, comments |-> 0]

\* StorageManager.getActionsToday
GetActionsToday(history, t) ==
    IF history.day = CalendarDay(t)
    THEN [total |-> history.total, comments |-> history.comments]
    ELSE [total |-> 0, comments |-> 0]

\* history.push(action) on the history that was read
PushAction(history, t, type) ==
    [day |-> CalendarDay(t),
     total |-> GetActionsToday(history, t).total + 1,
     comments |-> GetActionsToday(history, t).comments
                  + (IF type = "COMMENT" THEN 1 ELSE 0)]

\* StorageManager.recordAction: the set, computed from what its get returned
RecordActionWrite(st, read, t, type) ==
    LET history == PushAction(read.actionHistory, t, type)
    IN  [st EXCEPT !.actionHistory = history,
                   !.sessionState =
                       [read.sessionState EXCEPT
                           !.actionsThisSession = @ + 1,
                           !.actionsToday = history.total]]

\* the cooldown record says the cooldown is running at t
CooldownOpen(st, t) == st.cooldownEnd # Undefined /\ t < st.cooldownEnd[1]

\* DetectionSystem.performFullScan on the fields of one detector
FullScan(page, outcome, failures, session, times, t) ==
    LET allSignals ==
            DetectDOMWarnings(page)
            \o (IF outcome = <<>> THEN <<>>
                ELSE BehavioralSignals(failures, outcome[1], outcome[2]))
            \o DetectPatternRisks(session, times, t)
        alertLevel == OverallAlertLevel("DEFCON1", allSignals)
    IN  [detected |-> Len(allSignals) > 0,
         signals |-> allSignals,
         recommendedAction |-> RecommendedAction(alertLevel),
         alertLevel |-> alertLevel]

\* the pages a scan of the loop sees: nothing, a CAPTCHA, disabled buttons
LoopPageSamples ==
    {[warnings |-> 0, captcha |-> c, buttons |-> 2, disabled |-> d, checkpoint |-> FALSE] :
        c \in BOOLEAN, d \in {1, 2}} \ {[warnings |-> 0, captcha |-> TRUE, buttons |-> 2,
                                         disabled |-> 2, checkpoint |-> FALSE]}

\* the draws of shouldTakeBreak in the loop: a mini break at 8 or at 10 actions
LoopMediumEveryDraws == {25}

LoopMiniEveryDraws == {8, 10}

\* post.connectionDegree of the post found, 0 when findNextPost returns null
PostSamples == {0, 1, 3}

\* the intervals of Math.random() in decideAction
DecisionBranches == {"read", "like", "like-or-comment", "comment"}

\* no action step taken in this iteration yet
NoAct == [kind |-> "none", inCooldown |-> FALSE, afterStop |-> FALSE]

NoLoop == [pc |-> "none"]

\* a slot the model leaves unused
ClosedSlot == [pc |-> "closed"]

\* the activations of a page, limited to one at a time
OneSlot == [k \in Slots |-> IF k = 1 THEN NoLoop ELSE ClosedSlot]

\* the activations of a page, up to MaxActivations at a time
AllSlots == [k \in Slots |-> NoLoop]

\* an activation at the head of the while loop; stopped, paused and acted are
\* history: stopAutomation ran during this iteration, the iteration ended in
\* the PAUSE branch, and the last action step taken
NewActivation ==
    [pc |-> "top", degree |-> 0, actionType |-> "none", commentCheck |-> "none",
     success |-> FALSE, read |-> <<>>, stopped |-> FALSE, paused |-> FALSE,
     acted |-> NoAct]

\* an AutomationController after init() on the session state it read
NewPage(session) ==
    [isRunning |-> FALSE, session |-> session, consecutiveFailures |-> 0,
     lastActionTimes |-> <<>>, timers |-> 0, inbox |-> <<>>, decisions |-> 0]

LoopInit ==
    /\ pages = [p \in Pages |-> NewPage(StorageDefaults.sessionState)]
    /\ loops = [p \in Pages |-> OneSlot]
    /\ popupView = [enabled |-> FALSE, inCooldown |-> FALSE]

FreeSlots(p) == {k \in Slots : loops[p][k].pc = "none"}

\* the action step an activation takes, with what held when it was taken
Act(p, k, kind) ==
    [kind |-> kind, inCooldown |-> CooldownOpen(storage, now),
     afterStop |-> loops[p][k].stopped]

\* startAutomation on page record pg and storage st, as its caller left them:
\* nothing when already running, else the flag, startNewSession and a new
\* activation of automationLoop
StartAutomationFrom(p, pg, st) ==
    IF pg.isRunning
    THEN /\ pages' = [pages EXCEPT ![p] = pg]
         /\ storage' = st
         /\ UNCHANGED loops
    ELSE /\ FreeSlots(p) # {}
         /\ pages' = [pages EXCEPT ![p] = [pg EXCEPT !.isRunning = TRUE]]
         /\ storage' = StartNewSession(st, now)
         /\ loops' = [loops EXCEPT
                ![p][CHOOSE k \in FreeSlots(p) : \A j \in FreeSlots(p) : k <= j] =
                    NewActivation]

\* stopAutomation: the flag is cleared and automation disabled in storage;
\* every activation of the page that is in a wait is marked
StopAutomationFrom(p, pg) ==
    /\ pages' = [pages EXCEPT ![p] = [pg EXCEPT !.isRunning = FALSE]]
    /\ storage' = SetAutomationEnabledWrite(storage, FALSE, now)
    /\ loops' = [loops EXCEPT ![p] =
                    [k \in Slots |-> IF loops[p][k].pc \in {"none", "closed"} THEN loops[p][k]
                                     ELSE [loops[p][k] EXCEPT !.stopped = TRUE]]]

\* handleMessage for the message at the head of the page's queue
HandleMessage(p) ==
    /\ pages[p].inbox # <<>>
    /\ LET pg == [pages[p] EXCEPT !.inbox = Tail(@)]
       IN  IF Head(pages[p].inbox) = "START_AUTOMATION"
           THEN StartAutomationFrom(p, pg, storage)
           ELSE StopAutomationFrom(p, pg)
    /\ UNCHANGED <<now, popupView, outsideLoop>>

\* popup loadData: isAutomationEnabled and CooldownManager.isInCooldown
\* (which removes an expired record) refresh what the popup shows
PopupLoadData ==
    /\ popupView' = [enabled |-> IsAutomationEnabled(storage),
                     inCooldown |-> CooldownOpen(storage, now)]
    /\ storage' = IF storage.cooldownEnd # Undefined /\ ~CooldownOpen(storage, now)
                  THEN RemoveCooldown(storage) ELSE storage
    /\ popupView' # popupView \/ storage' # storage
    /\ UNCHANGED <<now, pages, loops, outsideLoop>>

\* popup handleToggleAutomation on the pages open: the toggle is on screen when
\* the popup shows no cooldown and the warm-up status it computed can proceed
HandleToggleAutomation(open) ==
    /\ ~popupView.inCooldown
    /\ GetWarmupStatus(accountAge, currentDay).canProceed
    /\ \A p \in open : Len(pages[p].inbox) < MaxInbox
    /\ storage' = SetAutomationEnabledWrite(storage, ~popupView.enabled, now)
    /\ popupView' = [popupView EXCEPT !.enabled = ~popupView.enabled]
    /\ pages' = [p \in Pages |->
                    IF p \in open
                    THEN [pages[p] EXCEPT !.inbox =
                             Append(@, IF popupView.enabled THEN "STOP_AUTOMATION"
                                       ELSE "START_AUTOMATION")]
                    ELSE pages[p]]
    /\ UNCHANGED <<now, loops, outsideLoop>>

\* the setTimeout callback of a mini or medium break:
\* StorageManager.setAutomationEnabled(true); this.startAutomation()
BreakRestartTimer(p) ==
    /\ pages[p].timers > 0
    /\ StartAutomationFrom(p, [pages[p] EXCEPT !.timers = @ - 1],
                           SetAutomationEnabledWrite(storage, TRUE, now))
    /\ UNCHANGED <<now, popupView, outsideLoop>>

\* service worker handleRateLimitDetection: setAutomationEnabled(false), then
\* CooldownManager.enable48HourCooldown
HandleRateLimitDetection(reason) ==
    /\ WarningCountOf(storage) < MaxLoopCooldowns
    /\ storage' = EnableCooldownWrite(SetAutomationEnabledWrite(storage, FALSE, now),
                                      now + CooldownSeconds, reason,
                                      WarningCountOf(storage))
    /\ UNCHANGED <<now, loopVars, outsideLoop>>

\* service worker performHealthCheck (alarm, every 5 minutes): isInCooldown,
\* and setAutomationEnabled(false) while the cooldown runs
PerformHealthCheck ==
    /\ storage.cooldownEnd # Undefined
    /\ storage' = IF CooldownOpen(storage, now)
                  THEN SetAutomationEnabledWrite(storage, FALSE, now)
                  ELSE RemoveCooldown(storage)
    /\ storage' # storage
    /\ UNCHANGED <<now, loopVars, outsideLoop>>

\* a day passes
LoopTick ==
    /\ now < MaxLoopDays * DaySeconds
    /\ now' = now + DaySeconds
    /\ UNCHANGED <<storage, loopVars, outsideLoop>>

\* the activation leaves the while loop: this.isRunning = false
LeaveLoop(p, k) ==
    /\ loops' = [loops EXCEPT ![p][k] = NoLoop]
    /\ pages' = [pages EXCEPT ![p].isRunning = FALSE]

\* head of the while loop: this.isRunning, then await isAutomationEnabled()
LoopCheck(p, k) ==
    /\ loops[p][k].pc = "top"
    /\ IF pages[p].isRunning /\ IsAutomationEnabled(storage)
       THEN /\ loops' = [loops EXCEPT ![p][k] = [NewActivation EXCEPT !.pc = "scan"]]
            /\ UNCHANGED pages
       ELSE LeaveLoop(p, k)
    /\ UNCHANGED <<now, storage, popupView, outsideLoop>>

\* performFullScan and what the loop does with it: STOP and PAUSE run the
\* response protocol, otherwise shouldTakeBreak decides; a break disables
\* automation and, unless it ends the session, sets the restart timer
LoopScan(p, k, page, mediumEvery, miniEvery) ==
    /\ loops[p][k].pc = "scan"
    /\ LET pg == pages[p]
           detection == FullScan(page, <<>>, pg.consecutiveFailures, pg.session,
                                 pg.lastActionTimes, now)
           response == ExecuteResponse(detection.alertLevel, storage, now,
                                       detection.signals)
           break == ShouldTakeBreak(pg.session, now, mediumEvery, miniEvery,
                                    [i \in 1..3 |-> 0])
       IN  IF detection.recommendedAction = "STOP"
           THEN storage' = response.storage /\ LeaveLoop(p, k)
           ELSE IF detection.recommendedAction = "PAUSE"
           THEN /\ storage' = response.storage
                /\ loops' = [loops EXCEPT ![p][k].pc = "sleep", ![p][k].paused = TRUE]
                /\ UNCHANGED pages
           ELSE IF break.needed
           THEN /\ break.type = "session-end" \/ pg.timers < MaxTimers
                /\ storage' = SetAutomationEnabledWrite(storage, FALSE, now)
                /\ loops' = [loops EXCEPT ![p][k] = NoLoop]
                /\ pages' = [pages EXCEPT ![p] =
                                [pg EXCEPT !.isRunning = FALSE,
                                           !.timers = IF break.type = "session-end"
                                                      THEN @ ELSE @ + 1]]
           ELSE /\ loops' = [loops EXCEPT ![p][k].pc = "find"]
                /\ UNCHANGED <<storage, pages>>
    /\ UNCHANGED <<now, popupView, outsideLoop>>

\* findNextPost: no post and a wait of 30 s, or a post to decide on
LoopFind(p, k, degree) ==
    /\ loops[p][k].pc = "find"
    /\ IF degree = 0
       THEN loops' = [loops EXCEPT ![p][k].pc = "sleep"] /\ UNCHANGED pages
       ELSE /\ pages[p].decisions < MaxDecisions
            /\ loops' = [loops EXCEPT ![p][k].pc = "decide", ![p][k].degree = degree]
            /\ pages' = [pages EXCEPT ![p].decisions = @ + 1]
    /\ UNCHANGED <<now, storage, popupView, outsideLoop>>

\* decideAction: canPerformAction('like') on the counters of today, then the
\* random branch; only the like-or-comment branch asks canPerformAction('comment')
LoopDecide(p, k, branch) ==
    /\ loops[p][k].pc = "decide"
    /\ LET today == GetActionsToday(storage.actionHistory, now)
           config == GetWarmupConfig(accountAge, currentDay)
           like == CanPerformAction(config, "like", today.total, today.comments,
                                    loops[p][k].degree, storage.speedMode)
           comment == CanPerformAction(config, "comment", today.total, today.comments,
                                       loops[p][k].degree, storage.speedMode)
       IN  loops' = [loops EXCEPT ![p][k] =
               IF ~like.allowed \/ branch = "read"
               THEN [@ EXCEPT !.pc = "sleep"]
               ELSE IF branch = "like"
               THEN [@ EXCEPT !.pc = "read", !.actionType = "LIKE"]
               ELSE IF branch = "like-or-comment"
               THEN [@ EXCEPT !.pc = "read",
                              !.actionType = IF comment.allowed THEN "COMMENT" ELSE "LIKE",
                              !.commentCheck = IF comment.allowed THEN "allowed"
                                               ELSE "denied"]
               ELSE [@ EXCEPT !.pc = "read", !.actionType = "COMMENT"]]
    /\ UNCHANGED <<now, storage, pages, popupView, outsideLoop>>

\* performAction after scrollToPost, the reading time and the thinking pause:
\* clickLike, which throws when the post has no like button
ClickLike(p, k, found) ==
    /\ loops[p][k].pc = "read"
    /\ loops' = [loops EXCEPT ![p][k] =
           IF ~found THEN [@ EXCEPT !.pc = "record", !.success = FALSE]
           ELSE [@ EXCEPT !.pc = IF loops[p][k].actionType = "COMMENT" THEN "comment"
                                ELSE "record",
                          !.success = TRUE,
                          !.acted = Act(p, k, "like")]]
    /\ UNCHANGED <<now, storage, pages, popupView, outsideLoop>>

\* performAction, COMMENT: postComment types and submits the comment, or
\* throws when the post has no comment box
PostComment(p, k, found) ==
    /\ loops[p][k].pc = "comment"
    /\ loops' = [loops EXCEPT ![p][k] =
           IF ~found THEN [@ EXCEPT !.pc = "record", !.success = FALSE]
           ELSE [@ EXCEPT !.pc = "record", !.acted = Act(p, k, "comment")]]
    /\ UNCHANGED <<now, storage, pages, popupView, outsideLoop>>

\* StorageManager.recordAction, the get of actionHistory and sessionState
RecordActionGet(p, k) ==
    /\ loops[p][k].pc = "record"
    /\ loops' = [loops EXCEPT ![p][k] =
           [@ EXCEPT !.pc = "recorded",
                     !.read = <<[actionHistory |-> storage.actionHistory,
                                 sessionState |-> storage.sessionState]>>]]
    /\ UNCHANGED <<now, storage, pages, popupView, outsideLoop>>

\* StorageManager.recordAction, the set; then recordActionTime for a success,
\* the scan with the duration and the outcome, and the response to it
RecordActionSet(p, k, page, duration) ==
    /\ loops[p][k].pc = "recorded"
    /\ LET me == loops[p][k]
           pg == pages[p]
           failures == NextConsecutiveFailures(pg.consecutiveFailures, me.success)
           pushed == Append(pg.lastActionTimes, now)
           times == IF ~me.success THEN pg.lastActionTimes
                    ELSE IF Len(pushed) > KeepLastActions THEN Tail(pushed) ELSE pushed
           recorded == RecordActionWrite(storage, me.read[1], now, me.actionType)
           detection == FullScan(page, <<duration, me.success>>, failures, pg.session,
                                 times, now)
       IN  /\ storage' = IF detection.detected
                         THEN ExecuteResponse(detection.alertLevel, recorded, now,
                                              detection.signals).storage
                         ELSE recorded
           /\ pages' = [pages EXCEPT ![p] = [pg EXCEPT !.consecutiveFailures = failures,
                                                       !.lastActionTimes = times]]
           /\ loops' = [loops EXCEPT ![p][k] =
                  [me EXCEPT !.pc = "sleep", !.read = <<>>,
                             !.acted = Act(p, k, "record")]]
    /\ UNCHANGED <<now, popupView, outsideLoop>>

\* a wait of the loop is over (the delay after an action, the 30 s without a
\* post, the 10 minutes of a PAUSE): back to the head of the while loop
LoopWake(p, k) ==
    /\ loops[p][k].pc = "sleep"
    /\ loops' = [loops EXCEPT ![p][k].pc = "top"]
    /\ UNCHANGED <<now, storage, pages, popupView, outsideLoop>>

\* startPassiveMonitoring, every 10 s: detectDOMWarnings, and executeResponse
\* with the severity of the first signal
PassiveMonitoring(p, page) ==
    /\ DetectDOMWarnings(page) # <<>>
    /\ storage' = ExecuteResponse(DetectDOMWarnings(page)[1].severity, storage, now,
                                  DetectDOMWarnings(page)).storage
    /\ storage' # storage
    /\ UNCHANGED <<now, loopVars, outsideLoop>>

\* reasons given by the service worker when it opens a cooldown
LoopReasons == {"Rate limit response: 429"}

\* the controllers of the open pages, the popup and the service worker
LoopNext(open) ==
    \/ \E p \in open : HandleMessage(p)
    \/ PopupLoadData
    \/ HandleToggleAutomation(open)
    \/ \E p \in open : BreakRestartTimer(p)
    \/ \E r \in LoopReasons : HandleRateLimitDetection(r)
    \/ PerformHealthCheck
    \/ LoopTick
    \/ \E p \in open, k \in Slots : LoopCheck(p, k)
    \/ \E p \in open, k \in Slots :
          \E page \in LoopPageSamples, m \in LoopMediumEveryDraws, n \in LoopMiniEveryDraws :
              LoopScan(p, k, page, m, n)
    \/ \E p \in open, k \in Slots, d \in PostSamples : LoopFind(p, k, d)
    \/ \E p \in open, k \in Slots, b \in DecisionBranches : LoopDecide(p, k, b)
    \/ \E p \in open, k \in Slots, found \in BOOLEAN : ClickLike(p, k, found)
    \/ \E p \in open, k \in Slots, found \in BOOLEAN : PostComment(p, k, found)
    \/ \E p \in open, k \in Slots : RecordActionGet(p, k)
    \/ \E p \in open, k \in Slots :
          \E page \in LoopPageSamples, d \in DurationSamples :
              RecordActionSet(p, k, page, d)
    \/ \E p \in open, k \in Slots : LoopWake(p, k)
    \/ \E p \in open, page \in LoopPageSamples : PassiveMonitoring(p, page)

\* a page on which no detection tier finds anything
QuietPages ==
    {[warnings |-> 0, captcha |-> FALSE, buttons |-> 2, disabled |-> 1,
      checkpoint |-> FALSE]}

\* a draw of shouldTakeBreak and a duration after which nothing is due
QuietMiniEveryDraws == {8}

QuietDurationSamples == {2000}

\* the controllers of two pages on quiet pages, and the popup toggle
TwoLoopsNext ==
    \/ HandleToggleAutomation(Pages)
    \/ \E p \in Pages : HandleMessage(p)
    \/ \E p \in Pages, k \in Slots : LoopCheck(p, k)
    \/ \E p \in Pages, k \in Slots :
          \E page \in QuietPages, m \in LoopMediumEveryDraws, n \in QuietMiniEveryDraws :
              LoopScan(p, k, page, m, n)
    \/ \E p \in Pages, k \in Slots, d \in PostSamples : LoopFind(p, k, d)
    \/ \E p \in Pages, k \in Slots, b \in DecisionBranches : LoopDecide(p, k, b)
    \/ \E p \in Pages, k \in Slots, found \in BOOLEAN : ClickLike(p, k, found)
    \/ \E p \in Pages, k \in Slots, found \in BOOLEAN : PostComment(p, k, found)
    \/ \E p \in Pages, k \in Slots : RecordActionGet(p, k)
    \/ \E p \in Pages, k \in Slots :
          \E page \in QuietPages, d \in QuietDurationSamples :
              RecordActionSet(p, k, page, d)
    \/ \E p \in Pages, k \in Slots : LoopWake(p, k)

\* an execution context that has not run its init() yet
NotStarted == [op |-> "not-started", pc |-> "off"]

\* init() of a context, as far as storage goes: StorageManager.initialize
Initialize(c) ==
    /\ call[c] = NotStarted
    /\ storage' = InitializeWrite(storage, now)
    /\ call' = [call EXCEPT ![c] = [op |-> "initialize", pc |-> "done",
                                    before |-> storage]]
    /\ UNCHANGED <<now, enablesDone, outsideCooldown>>

\* the context is shut down (an idle service worker is terminated, a page is
\* closed); its next event starts it again
Restart(c) ==
    /\ call[c] = Idle
    /\ call' = [call EXCEPT ![c] = NotStarted]
    /\ UNCHANGED <<now, storage, enablesDone, outsideCooldown>>

\* service worker performDailyReset (alarm): StorageManager.resetDailyCounters
PerformDailyReset ==
    /\ storage' = ResetDailyCountersWrite(storage, now)
    /\ storage' # storage
    /\ UNCHANGED <<now, call, enablesDone, outsideCooldown>>

\* the operations on the cooldown record and the flags, one after the other,
\* from a fresh install; the popup runs no init()
CounterNext ==
    \/ Initialize("service-worker")
    \/ AllIdle /\ Restart("service-worker")
    \/ \E r \in LoopReasons : AllIdle /\ Enable48HourCooldownGet("service-worker", r)
    \/ Enable48HourCooldownSet("service-worker")
    \/ \E c \in Contexts : AllIdle /\ IsInCooldownGet(c)
    \/ \E c \in Contexts : IsInCooldownCheck(c)
    \/ \E c \in Contexts : IsInCooldownRemove(c)
    \/ \E c \in Contexts : HandlerReturn(c)
    \/ \E c \in Contexts, b \in BOOLEAN : AllIdle /\ SetAutomationEnabled(c, b)
    \/ AllIdle /\ PerformHealthCheck
    \/ AllIdle /\ PerformDailyReset
    \/ Tick /\ UNCHANGED <<cooldownVars, outsideCooldown>>

\* one controller, its restart timer and the popup toggle, on quiet pages
RestartNext ==
    \/ HandleToggleAutomation({"page-1"})
    \/ HandleMessage("page-1")
    \/ BreakRestartTimer("page-1")
    \/ \E k \in Slots : LoopCheck("page-1", k)
    \/ \E k \in Slots :
          \E page \in QuietPages, m \in LoopMediumEveryDraws, n \in LoopMiniEveryDraws :
              LoopScan("page-1", k, page, m, n)
    \/ \E k \in Slots, d \in PostSamples : LoopFind("page-1", k, d)
    \/ \E k \in Slots, b \in DecisionBranches : LoopDecide("page-1", k, b)
    \/ \E k \in Slots, found \in BOOLEAN : ClickLike("page-1", k, found)
    \/ \E k \in Slots, found \in BOOLEAN : PostComment("page-1", k, found)
    \/ \E k \in Slots : RecordActionGet("page-1", k)
    \/ \E k \in Slots :
          \E page \in QuietPages, d \in QuietDurationSamples :
              RecordActionSet("page-1", k, page, d)
    \/ \E k \in Slots : LoopWake("page-1", k)

(***************************************************************************)
(* The stored configuration and the content script's WarmupProtocol        *)
(***************************************************************************)
\* the keys StorageManager.getConfig reads for the WarmupProtocol
StoredConfig(age, start) == [accountAge |-> age, warmupStartDate |-> start]

\* content script init() of a page that is loaded: the WarmupProtocol is
\* built once, from the configuration stored at that moment
ContentScriptInit ==
    /\ warmupCall = NoCall
    /\ NewWarmupProtocol(storage.accountAge, storage.warmupStartDate)

\* popup handleAccountAgeChange(age): StorageManager.updateConfig({accountAge: age})
HandleAccountAgeChange(age) ==
    /\ warmupCall = NoCall
    /\ storage' = [storage EXCEPT !.accountAge = age]
    /\ UNCHANGED <<now, warmupVars, call, enablesDone, sessionState, detectVars,
                   timingCall, responseCall, loopVars>>

\* time passes between two queries (the queries themselves are synchronous)
EnvelopeTick ==
    /\ warmupCall = NoCall
    /\ Tick
    /\ UNCHANGED <<warmupVars, cooldownVars, sessionState, detectVars,
                   timingCall, responseCall, loopVars>>

\* the requests decideAction puts to canPerformAction
EnvelopeActionSamples == {4, 9, 14}

EnvelopeNext ==
    \/ ContentScriptInit
    \/ \E age \in AccountAges : HandleAccountAgeChange(age)
    \/ EnvelopeTick
    \/ GetWarmupConfigCall
    \/ /\ warmupCall = NoCall
       /\ \E k \in ActionKinds, a \in EnvelopeActionSamples :
             CanPerformActionCall(k, a, 0, 1, "SLOW")
    \/ WarmupReturn

(***************************************************************************)
(* AutomationController.performAction: the waits the timing model hands to *)
(* one action, and the scan that is given the action's duration.           *)
(***************************************************************************)
\* config.readingTime of getTimingConfig
ReadingTime(speedMode) ==
    CASE speedMode = "ULTRA_SLOW" ->
             [short |-> <<20000, 35000>>, medium |-> <<40000, 60000>>, long |-> <<70000, 100000>>]
      [] speedMode = "SLOW" ->
             [short |-> <<15000, 25000>>, medium |-> <<30000, 50000>>, long |-> <<55000, 85000>>]
      [] speedMode = "MEDIUM" ->
             [short |-> <<12000, 20000>>, medium |-> <<25000, 40000>>, long |-> <<45000, 75000>>]
      [] speedMode = "NORMAL" ->
             [short |-> <<10000, 18000>>, medium |-> <<20000, 35000>>, long |-> <<40000, 65000>>]

\* config.microPauses.afterReading of getTimingConfig
AfterReading(speedMode) ==
    CASE speedMode = "ULTRA_SLOW" -> <<2000, 5000>>
      [] speedMode = "SLOW" -> <<1500, 3500>>
      [] speedMode = "MEDIUM" -> <<1000, 3000>>
      [] speedMode = "NORMAL" -> <<1000, 2500>>

\* calculateReadingTime(wordCount, hasImage, hasVideo, commentCount); reread is
\* the outcome of Math.random() < 0.15, draws the bytes of the five
\* cryptoRandomRange calls
CalculateReadingTime(speedMode, post, reread, draws) ==
    LET config == ReadingTime(speedMode)
        band == IF post.wordCount < 100 THEN config.short
                ELSE IF post.wordCount < 300 THEN config.medium
                ELSE config.long
    IN  CryptoRandomRange(band[1], band[2], draws[1], 1)
        + (IF post.hasImage THEN CryptoRandomRange(3000, 8000, draws[2], 1) ELSE 0)
        + (IF post.hasVideo THEN CryptoRandomRange(5000, 15000, draws[3], 1) ELSE 0)
        + (IF post.commentCount > 10 THEN CryptoRandomRange(5000, 15000, draws[4], 1) ELSE 0)
        + (IF reread THEN CryptoRandomRange(3000, 8000, draws[5], 1) ELSE 0)

\* getAfterReadingPause
GetAfterReadingPause(speedMode, randomBytes) ==
    CryptoRandomRange(AfterReading(speedMode)[1], AfterReading(speedMode)[2], randomBytes, 1)

\* performAction up to its scan when nothing but its own sleeps takes time:
\* the reading time and the thinking pause, then the action succeeds
PerformActionWaits(post, reread, draws) ==
    /\ timingCall = NoCall
    /\ detectCall = NoCall
    /\ LET readingTime == CalculateReadingTime(sessionState.speedMode, post, reread, draws)
           thinkingTime == GetAfterReadingPause(sessionState.speedMode, draws[6])
       IN  timingCall' = [op |-> "performAction",
                          readingTime |-> readingTime,
                          thinkingTime |-> thinkingTime,
                          duration |-> readingTime + thinkingTime,
                          success |-> TRUE]
    /\ UNCHANGED outsideTiming

\* detector.performFullScan(Date.now() - startTime, success) of performAction
PerformActionScan(page) ==
    /\ timingCall.op = "performAction"
    /\ PerformFullScan(page, <<timingCall.duration, timingCall.success>>)

\* performAction returns once the scan has been looked at
PerformActionReturn ==
    /\ timingCall.op = "performAction"
    /\ detectCall # NoCall
    /\ timingCall' = NoCall
    /\ detectCall' = NoCall
    /\ UNCHANGED <<warmupVars, cooldownVars, now, sessionState, consecutiveFailures,
                   lastActionTimes, recentOutcomes, recordsMade, responseCall, loopVars>>

\* the posts acted on: short, medium and long, with and without media and
\* a long comment thread
ReadPostSamples ==
    [wordCount : {50, 200, 400}, hasImage : BOOLEAN, hasVideo : BOOLEAN,
     commentCount : {0, 11}]

\* every cryptoRandomRange call draws its least or its greatest bytes
WaitDraws == [1..6 -> {<<0, 0>>, <<255, 255>>}]

\* successful actions on a page without any warning, one after the other
WaitsNext ==
    \/ \E post \in ReadPostSamples, reread \in BOOLEAN, draws \in WaitDraws :
          PerformActionWaits(post, reread, draws)
    \/ \E page \in QuietPages : PerformActionScan(page)
    \/ PerformActionReturn

(***************************************************************************)
(* The popup and the response recipes on the same storage: incidents of    *)
(* every level, the clock, and the user reloading the popup and switching  *)
(* automation with its toggle (no page is open).                           *)
(***************************************************************************)
RecoveryNext ==
    \/ /\ responseCall = NoCall
       /\ \E level \in AlertLevels, signals \in ResponseSignalSamples :
             ExecuteResponseCall(level, signals)
    \/ ResponseReturn
    \/ ResponseTick
    \/ PopupLoadData
    \/ HandleToggleAutomation({})

(***************************************************************************)
(* Specifications                                                          *)
(***************************************************************************)
\* SessionState defaults of StorageManager.initialize
SessionInit ==
    sessionState = [actionsToday |-> 0, actionsThisSession |-> 0, isWarmupPhase |-> TRUE,
                    sessionStartTime |-> now, speedMode |-> "SLOW"]

InitWarmup ==
    now = 0 /\ WarmupInit /\ CooldownInit /\ SessionInit /\ DetectInit /\ TimingInit /\ ResponseInit /\ LoopInit

NextWarmup == WarmupNext

SpecWarmup == InitWarmup /\ [][NextWarmup]_vars

InitCooldown ==
    now = 0 /\ WarmupInit /\ CooldownInit /\ SessionInit /\ DetectInit /\ TimingInit /\ ResponseInit /\ LoopInit

NextCooldown == CooldownNext

SpecCooldown == InitCooldown /\ [][NextCooldown]_vars

InitFallback ==
    now = 0 /\ WarmupInit /\ CooldownInit /\ SessionInit /\ DetectInit /\ TimingInit /\ ResponseInit /\ LoopInit

NextFallback == FallbackNext

SpecFallback == InitFallback /\ [][NextFallback]_vars

\* a detector constructed on a session state read from storage
InitDetect ==
    /\ now = 0 /\ WarmupInit /\ CooldownInit /\ DetectInit /\ TimingInit /\ ResponseInit /\ LoopInit
    /\ sessionState \in SessionStateSamples

NextDetect == DetectNext

SpecDetect == InitDetect /\ [][NextDetect]_vars

\* a detector that has recorded nothing yet, or KeepLastActions actions 30 s apart
InitPattern ==
    /\ now = 30 * KeepLastActions /\ WarmupInit /\ CooldownInit /\ TimingInit
    /\ ResponseInit /\ LoopInit
    /\ sessionState \in SessionStateSamples
    /\ consecutiveFailures = 0
    /\ lastActionTimes \in {<<>>, RegularHistory}
    /\ detectCall = NoCall
    /\ recentOutcomes = <<>>
    /\ recordsMade = 0

NextPattern == PatternNext

SpecPattern == InitPattern /\ [][NextPattern]_vars

InitScanFailure ==
    /\ now = 0 /\ WarmupInit /\ CooldownInit /\ DetectInit /\ TimingInit /\ ResponseInit /\ LoopInit
    /\ sessionState \in SessionStateSamples

NextScanFailure == ScanFailureNext

SpecScanFailure == InitScanFailure /\ [][NextScanFailure]_vars

\* an engine constructed on a session state read from storage
InitTiming ==
    /\ now = 0 /\ WarmupInit /\ CooldownInit /\ DetectInit /\ TimingInit /\ ResponseInit /\ LoopInit
    /\ sessionState \in TimingSessionSamples

NextTiming == TimingNext

SpecTiming == InitTiming /\ [][NextTiming]_vars

\* an engine constructed on a session state read from storage, asked for breaks
InitBreak ==
    /\ now = SessionHourSeconds /\ WarmupInit /\ CooldownInit /\ DetectInit /\ TimingInit /\ ResponseInit /\ LoopInit
    /\ sessionState \in BreakSessionSamples

NextBreak == BreakNext

SpecBreak == InitBreak /\ [][NextBreak]_vars

\* a content script responding to scans, automation switched on or off
InitResponse ==
    /\ now = 0 /\ WarmupInit /\ SessionInit /\ DetectInit /\ TimingInit /\ ResponseInit /\ LoopInit
    /\ storage \in {StorageDefaults, [StorageDefaults EXCEPT !.automationEnabled = TRUE]}
    /\ call = [c \in Contexts |-> Idle]
    /\ enablesDone = 0

NextResponse == ResponseNext

SpecResponse == InitResponse /\ [][NextResponse]_vars

\* the histories a loop starts on: 9 actions today, none or one a comment
LoopHistorySamples == {[day |-> 0, total |-> 9, comments |-> c] : c \in {0, 1}}

\* actionsThisSession of the stored session the pages were opened on
LoopSessionSamples == {10}

\* pages opened on the eighth day of a THREE_TO_SIX_MONTHS warm-up (10 actions
\* and 1 comment a day), automation off
InitLoop ==
    /\ now = 0
    /\ accountAge = "THREE_TO_SIX_MONTHS"
    /\ warmupStartDate = 0 - 7 * DaySeconds
    /\ currentDay = CalculateCurrentDay(now, warmupStartDate)
    /\ warmupCall = NoCall
    /\ \E history \in LoopHistorySamples, actions \in LoopSessionSamples :
          /\ storage = [StorageDefaults EXCEPT
                           !.actionHistory = history,
                           !.sessionState = [@ EXCEPT !.actionsThisSession = actions,
                                                      !.actionsToday = history.total]]
          /\ pages = [p \in Pages |-> NewPage(storage.sessionState)]
    /\ loops = [p \in Pages |-> OneSlot]
    /\ popupView = [enabled |-> FALSE, inCooldown |-> FALSE]
    /\ call = [c \in Contexts |-> Idle]
    /\ enablesDone = 0
    /\ SessionInit /\ DetectInit /\ TimingInit /\ ResponseInit

NextLoop == LoopNext({"page-1"})

SpecLoop == InitLoop /\ [][NextLoop]_vars

\* two pages open on the same storage, the popup switching automation
InitTwoLoops == InitLoop

NextTwoLoops == TwoLoopsNext

SpecTwoLoops == InitTwoLoops /\ [][NextTwoLoops]_vars

\* one page that may hold several activations of automationLoop
InitRestart ==
    /\ now = 0
    /\ accountAge = "THREE_TO_SIX_MONTHS"
    /\ warmupStartDate = 0 - 7 * DaySeconds
    /\ currentDay = CalculateCurrentDay(now, warmupStartDate)
    /\ warmupCall = NoCall
    /\ \E history \in LoopHistorySamples, actions \in LoopSessionSamples :
          /\ storage = [StorageDefaults EXCEPT
                           !.actionHistory = history,
                           !.sessionState = [@ EXCEPT !.actionsThisSession = actions,
                                                      !.actionsToday = history.total]]
          /\ pages = [p \in Pages |-> NewPage(storage.sessionState)]
    /\ loops = [p \in Pages |-> AllSlots]
    /\ popupView = [enabled |-> FALSE, inCooldown |-> FALSE]
    /\ call = [c \in Contexts |-> Idle]
    /\ enablesDone = 0
    /\ SessionInit /\ DetectInit /\ TimingInit /\ ResponseInit

NextRestart == RestartNext

SpecRestart == InitRestart /\ [][NextRestart]_vars

\* the storage of an install that was used before: one warning counted, nine
\* actions recorded today
UsedStorage ==
    [StorageDefaults EXCEPT !.warningCount = Some(1),
                            !.sessionState = [@ EXCEPT !.actionsToday = 9]]

\* a fresh install or a used one: the service worker has not started, the
\* popup can be opened
InitCounter ==
    /\ now = 0 /\ WarmupInit /\ SessionInit /\ DetectInit /\ TimingInit /\ ResponseInit /\ LoopInit
    /\ storage \in {FreshStorage, UsedStorage}
    /\ call = [c \in Contexts |-> IF c = "service-worker" THEN NotStarted ELSE Idle]
    /\ enablesDone = 0

NextCounter == CounterNext

SpecCounter == InitCounter /\ [][NextCounter]_vars

\* a page whose content script was initialised on warm-up day 6 or 7 of a
\* stored tier, the stored start date lying that many days back
EnvelopeStartSamples == {0 - 5 * DaySeconds, 0 - 6 * DaySeconds}

InitEnvelope ==
    /\ now = 0 /\ SessionInit /\ DetectInit /\ TimingInit /\ ResponseInit /\ LoopInit
    /\ call = [c \in Contexts |-> Idle]
    /\ enablesDone = 0
    /\ \E age \in {"THREE_TO_SIX_MONTHS", "SIX_TO_TWELVE_MONTHS"}, start \in EnvelopeStartSamples :
          /\ storage = StoredConfig(age, start) @@ StorageDefaults
          /\ accountAge = age
          /\ warmupStartDate = start
          /\ currentDay = CalculateCurrentDay(now, start)
    /\ warmupCall = NoCall

NextEnvelope == EnvelopeNext

SpecEnvelope == InitEnvelope /\ [][NextEnvelope]_vars

InitPostWarmup ==
    now = 0 /\ WarmupInit /\ CooldownInit /\ SessionInit /\ DetectInit /\ TimingInit /\ ResponseInit /\ LoopInit

NextPostWarmup == PostWarmupNext

SpecPostWarmup == InitPostWarmup /\ [][NextPostWarmup]_vars

InitPassive ==
    now = 0 /\ WarmupInit /\ CooldownInit /\ SessionInit /\ DetectInit /\ TimingInit /\ ResponseInit /\ LoopInit

NextPassive == PassiveNext

SpecPassive == InitPassive /\ [][NextPassive]_vars

InitTyping ==
    now = 0 /\ WarmupInit /\ CooldownInit /\ SessionInit /\ DetectInit /\ TimingInit /\ ResponseInit /\ LoopInit

NextTyping == TypingNext

SpecTyping == InitTyping /\ [][NextTyping]_vars

InitWaits ==
    /\ now = 0 /\ WarmupInit /\ CooldownInit /\ DetectInit /\ TimingInit /\ ResponseInit /\ LoopInit
    /\ \E speedMode \in SpeedModes :
          sessionState = [actionsToday |-> 0, actionsThisSession |-> 0,
                          isWarmupPhase |-> TRUE, sessionStartTime |-> now,
                          speedMode |-> speedMode]

NextWaits == WaitsNext

SpecWaits == InitWaits /\ [][NextWaits]_vars

InitRecovery ==
    /\ now = 0 /\ WarmupInit /\ SessionInit /\ DetectInit /\ TimingInit /\ ResponseInit /\ LoopInit
    /\ storage \in {StorageDefaults, [StorageDefaults EXCEPT !.automationEnabled = TRUE]}
    /\ call = [c \in Contexts |-> Idle]
    /\ enablesDone = 0

NextRecovery == RecoveryNext

SpecRecovery == InitRecovery /\ [][NextRecovery]_vars

InitConcurrent ==
    now = 0 /\ WarmupInit /\ CooldownInit /\ SessionInit /\ DetectInit /\ TimingInit /\ ResponseInit /\ LoopInit

NextConcurrent == ConcurrentNext

SpecConcurrent == InitConcurrent /\ [][NextConcurrent]_vars

\* one controller in week 1 of the strict warm-up (3-6 months, day 1), the
\* user having chosen the only speed that week allows; nothing done today
InitApproval ==
    /\ now = 0
    /\ accountAge = "THREE_TO_SIX_MONTHS"
    /\ warmupStartDate = 0
    /\ currentDay = CalculateCurrentDay(now, warmupStartDate)
    /\ warmupCall = NoCall
    /\ \E actions \in LoopSessionSamples :
          /\ storage = [StorageDefaults EXCEPT
                           !.speedMode = "ULTRA_SLOW",
                           !.sessionState = [@ EXCEPT !.actionsThisSession = actions]]
          /\ pages = [p \in Pages |-> NewPage(storage.sessionState)]
    /\ loops = [p \in Pages |-> AllSlots]
    /\ popupView = [enabled |-> FALSE, inCooldown |-> FALSE]
    /\ call = [c \in Contexts |-> Idle]
    /\ enablesDone = 0
    /\ SessionInit /\ DetectInit /\ TimingInit /\ ResponseInit

NextApproval == RestartNext

SpecApproval == InitApproval /\ [][NextApproval]_vars

InitCursor ==
    now = 0 /\ WarmupInit /\ CooldownInit /\ SessionInit /\ DetectInit /\ TimingInit /\ ResponseInit /\ LoopInit

NextCursor == CursorNext

SpecCursor == InitCursor /\ [][NextCursor]_vars

(***************************************************************************)
(* Claims about WarmupProtocol, checked under SpecWarmup                   *)
(***************************************************************************)
IsCanPerformAction == warmupCall.op = "canPerformAction"

IsGetWarmupConfig == warmupCall.op = "getWarmupConfig"

\* C2: for the tier "under 3 months" getWarmupConfig returns zero caps and
\* canPerformAction denies every request, whatever the kind, the counters
\* (zero and negative included), the degree, the speed and the warm-up day.
C2_BlockedTierDeniesAll ==
    accountAge = "UNDER_3_MONTHS" =>
        /\ IsGetWarmupConfig =>
              /\ warmupCall.config.maxActionsPerDay = 0
              /\ warmupCall.config.maxCommentsPerDay = 0
        /\ IsCanPerformAction => ~warmupCall.result.allowed

C2_Witness ==
    /\ accountAge = "UNDER_3_MONTHS"
    /\ currentDay <= 0
    /\ IsCanPerformAction
    /\ warmupCall.actionType = "like"
    /\ warmupCall.actionsToday < 0
    /\ warmupCall.commentsToday < 0
    /\ warmupCall.connectionDegree = 1
    /\ ~warmupCall.result.allowed

\* the conditions the claims name, on the arguments of the recorded call
UnderDailyCap == warmupCall.actionsToday < warmupCall.config.maxActionsPerDay

UnderCommentCap ==
    warmupCall.actionType # "comment"
        \/ warmupCall.commentsToday < warmupCall.config.maxCommentsPerDay

CommentsEnabled ==
    warmupCall.actionType # "comment" \/ warmupCall.config.maxCommentsPerDay # 0

DegreeInScope ==
    warmupCall.connectionDegree <= warmupCall.config.restrictedToConnections

SpeedPermitted == warmupCall.currentSpeed \in warmupCall.config.allowedSpeed

\* the reason of the first failing rule, in the order daily cap, comment cap,
\* comments disabled, connection degree, speed tier
ReasonIsFirstFailingRule ==
    LET r == warmupCall.result.reason IN
    /\ (r = "daily action limit reached") <=> ~UnderDailyCap
    /\ (r = "daily comment limit reached") <=> (UnderDailyCap /\ ~UnderCommentCap)
    /\ (r = "comments disabled") <=>
            (UnderDailyCap /\ UnderCommentCap /\ ~CommentsEnabled)
    /\ (r = "connection degree") <=>
            (UnderDailyCap /\ UnderCommentCap /\ CommentsEnabled /\ ~DegreeInScope)
    /\ (r = "speed mode not allowed") <=>
            (UnderDailyCap /\ UnderCommentCap /\ CommentsEnabled /\ DegreeInScope
                /\ ~SpeedPermitted)

C6_CommentsDisabledReason ==
    (/\ IsCanPerformAction
     /\ warmupCall.actionType = "comment"
     /\ warmupCall.config.maxCommentsPerDay = 0
     /\ UnderDailyCap)
        => warmupCall.result = Denied("comments disabled")

\* the caps the documentation gives for a tier and a warm-up day
DocumentedCaps(age, day) ==
    CASE age = "SIX_TO_TWELVE_MONTHS" /\ day \in 1..7 -> <<15, 3>>
      [] age = "SIX_TO_TWELVE_MONTHS" /\ day >= 8 -> <<30, 7>>
      [] age = "THREE_TO_SIX_MONTHS" /\ day \in 1..7 -> <<5, 0>>
      [] age = "THREE_TO_SIX_MONTHS" /\ day \in 8..14 -> <<10, 1>>
      [] age = "THREE_TO_SIX_MONTHS" /\ day \in 15..21 -> <<15, 2>>
      [] age = "THREE_TO_SIX_MONTHS" /\ day \in 22..28 -> <<25, 3>>
      [] age = "ONE_TO_TWO_YEARS" -> <<40, 10>>
      [] age = "OVER_TWO_YEARS" -> <<60, 15>>
      [] OTHER -> <<>>

\* C7: getWarmupConfig returns the documented caps for every tier and day.
C7_DocumentedCaps ==
    (IsGetWarmupConfig /\ DocumentedCaps(accountAge, currentDay) # <<>>) =>
        <<warmupCall.config.maxActionsPerDay, warmupCall.config.maxCommentsPerDay>>
            = DocumentedCaps(accountAge, currentDay)

C7_Witness ==
    /\ IsGetWarmupConfig
    /\ accountAge = "SIX_TO_TWELVE_MONTHS"
    /\ currentDay = 8
    /\ warmupCall.config.maxActionsPerDay = 30

(***************************************************************************)
(* Claims about CooldownManager, checked under SpecCooldown                *)
(***************************************************************************)
EnableDone(c) == call[c].op = "enable48HourCooldown" /\ call[c].pc = "done"

IsInCooldownDone(c) == call[c].op = "isInCooldown" /\ call[c].pc = "done"

\* C3: each call of enable48HourCooldown(reason) sets the expiry to the time of
\* the call plus 48 hours, records the reason, sets automationEnabled to false
\* and adds exactly 1 to the warning counter; after two calls from counter 0
\* the counter is 2 and hasPermanentRestrictions() is true.
C3_EnableCooldownEffect ==
    /\ \A c \in Contexts :
          EnableDone(c) =>
              /\ storage.cooldownEnd = Some(call[c].calledAt + CooldownSeconds)
              /\ storage.cooldownReason = Some(call[c].reason)
              /\ storage.automationEnabled = FALSE
              /\ storage.warningCount = Some(WarningCountOf(call[c].before) + 1)
    /\ storage.warningCount = Some(enablesDone)
    /\ HasPermanentRestrictions(storage) <=> enablesDone >= 2

C3_Witness ==
    \E c \in Contexts :
        /\ EnableDone(c)
        /\ call[c].before.automationEnabled
        /\ call[c].before.warningCount = Some(1)
        /\ enablesDone = 2
        /\ HasPermanentRestrictions(storage)

\* C4: isInCooldown reports not-in-cooldown when no expiry is recorded; reports
\* in-cooldown with remainingTime = expiry - now > 0 and a reason when
\* now < expiry; and when now >= expiry removes expiry and reason and reports
\* not-in-cooldown; the warning counter and the automation flags never change.
C4_IsInCooldownContract ==
    \A c \in Contexts :
        IsInCooldownDone(c) =>
            LET was == call[c].before
                t == call[c].checkedAt
                res == call[c].result
            IN  /\ storage.warningCount = was.warningCount
                /\ storage.automationEnabled = was.automationEnabled
                /\ storage.automationPaused = was.automationPaused
                /\ storage.emergencyStop = was.emergencyStop
                /\ was.cooldownEnd = Undefined =>
                      (~res.inCooldown /\ storage = was)
                /\ (was.cooldownEnd # Undefined /\ t < was.cooldownEnd[1]) =>
                      /\ res.inCooldown
                      /\ res.remainingTime = Some(was.cooldownEnd[1] - t)
                      /\ res.remainingTime[1] > 0
                      /\ res.reason # Undefined /\ res.reason[1] # ""
                      /\ storage = was
                /\ (was.cooldownEnd # Undefined /\ t >= was.cooldownEnd[1]) =>
                      /\ ~res.inCooldown
                      /\ storage.cooldownEnd = Undefined
                      /\ storage.cooldownReason = Undefined

C4_Witness ==
    \E c \in Contexts :
        /\ IsInCooldownDone(c)
        /\ call[c].before.cooldownEnd # Undefined
        /\ call[c].checkedAt = call[c].before.cooldownEnd[1]
        /\ call[c].before.automationEnabled
        /\ call[c].before.warningCount = Some(2)
        /\ storage.cooldownEnd = Undefined
        /\ ~call[c].result.inCooldown

(***************************************************************************)
(* Claims about DetectionSystem, checked under SpecDetect and SpecPattern  *)
(***************************************************************************)
IsFullScan == detectCall.op = "performFullScan"

HasSignal(kind) ==
    \E i \in 1..Len(detectCall.signals) : detectCall.signals[i].kind = kind

\* the order of the risk scale, least to most severe
SeverityRank(level) ==
    CASE level = "DEFCON1" -> 1 [] level = "DEFCON2" -> 2 [] level = "DEFCON3" -> 3
      [] level = "DEFCON4" -> 4 [] level = "DEFCON5" -> 5

\* C8: in every result of performFullScan alertLevel is the maximum severity
\* over the signals of that scan (DEFCON1 when there are none), and
\* recommendedAction is STOP for DEFCON5, PAUSE for DEFCON4, SLOW_DOWN for
\* DEFCON3 and DEFCON2, CONTINUE for DEFCON1.
C8_AlertLevelIsMaxSeverity ==
    IsFullScan =>
        LET sigs == detectCall.signals
            level == detectCall.alertLevel
        IN  /\ \A i \in 1..Len(sigs) : SeverityRank(sigs[i].severity) <= SeverityRank(level)
            /\ level = "DEFCON1" \/ \E i \in 1..Len(sigs) : sigs[i].severity = level
            /\ detectCall.recommendedAction =
                  CASE level = "DEFCON5" -> "STOP"
                    [] level = "DEFCON4" -> "PAUSE"
                    [] level \in {"DEFCON3", "DEFCON2"} -> "SLOW_DOWN"
                    [] level = "DEFCON1" -> "CONTINUE"

C8_Witness ==
    /\ IsFullScan
    /\ Len(detectCall.signals) >= 4
    /\ HasSignal("captcha") /\ HasSignal("slow-action") /\ HasSignal("timing-consistent")
    /\ detectCall.signals[Len(detectCall.signals)].severity = "DEFCON3"
    /\ detectCall.alertLevel = "DEFCON5"
    /\ detectCall.recommendedAction = "STOP"

\* C9: the consecutive-failure signal is in the result of an outcome report
\* exactly when that report and the two reports before it are failures (so it
\* first fires on the 3rd consecutive failure and stays through every further
\* one), and a success resets the counter to zero.
C9_ConsecutiveFailureSignal ==
    (detectCall # NoCall /\ detectCall.reported) =>
        /\ HasSignal("consecutive-failures") <=> recentOutcomes = <<FALSE, FALSE, FALSE>>
        /\ recentOutcomes[Len(recentOutcomes)] => consecutiveFailures = 0

C9_Witness ==
    /\ IsFullScan
    /\ detectCall.reported
    /\ consecutiveFailures = 5
    /\ HasSignal("consecutive-failures")

IsDetectPatternRisks == detectCall.op = "detectPatternRisks"

\* the recorded inter-action intervals: their number, sum and sum of squares
IntervalCount == IF lastActionTimes = <<>> THEN 0 ELSE Len(lastActionTimes) - 1

IntervalSum ==
    IF IntervalCount = 0 THEN 0
    ELSE lastActionTimes[Len(lastActionTimes)] - lastActionTimes[1]

IntervalSquares ==
    SumSeq([i \in 1..IntervalCount |->
               (lastActionTimes[i + 1] - lastActionTimes[i])
                   * (lastActionTimes[i + 1] - lastActionTimes[i])])

\* n * n * variance of the intervals
ScaledVariance == IntervalCount * IntervalSquares - IntervalSum * IntervalSum

\* standard deviation below 15% of the mean: 400 * variance < 9 * mean^2, mean > 0
StdDevBelow15Percent ==
    IntervalCount > 0 /\ IntervalSum > 0
        /\ 400 * ScaledVariance < 9 * IntervalSum * IntervalSum

\* standard deviation at least 20% of the mean: 25 * variance >= mean^2, or mean <= 0
StdDevAtLeast20Percent ==
    IntervalCount > 0
        /\ (IntervalSum <= 0 \/ 25 * ScaledVariance >= IntervalSum * IntervalSum)

\* C10 as stated: the timing-too-consistent signal is emitted when at least 5
\* intervals are recorded and their standard deviation is below 15% of their
\* mean; it is not emitted when fewer than 5 intervals are recorded or when the
\* standard deviation is at least 20% of the mean.
C10_FiveIntervals ==
    IsDetectPatternRisks =>
        /\ (IntervalCount >= 5 /\ StdDevBelow15Percent) => HasSignal("timing-consistent")
        /\ IntervalCount < 5 => ~HasSignal("timing-consistent")
        /\ StdDevAtLeast20Percent => ~HasSignal("timing-consistent")

\* C10 amended: the signal is emitted when at least 5 action times (4
\* intervals) are recorded and the standard deviation of the intervals is
\* below 15% of their mean; it is not emitted when fewer than 5 action times
\* (fewer than 4 intervals) are recorded or when the standard deviation is at
\* least 20% of the mean.
C10_FiveActionTimes ==
    IsDetectPatternRisks =>
        /\ (IntervalCount >= 4 /\ StdDevBelow15Percent) => HasSignal("timing-consistent")
        /\ IntervalCount < 4 => ~HasSignal("timing-consistent")
        /\ StdDevAtLeast20Percent => ~HasSignal("timing-consistent")

C10_Witness ==
    /\ IsDetectPatternRisks
    /\ IntervalCount = 4
    /\ ScaledVariance > 0
    /\ StdDevBelow15Percent
    /\ HasSignal("timing-consistent")

(***************************************************************************)
(* Claims about HumanizationEngine, checked under SpecTiming               *)
(***************************************************************************)
IsCalculateActionDelay == timingCall.op = "calculateActionDelay"

\* C1: calculateActionDelay returns at least 15000 ms, for every speed tier,
\* every number of actions this session, every hour of the day and every
\* outcome of the random draws.
C1_DelayAtLeast15Seconds ==
    IsCalculateActionDelay => timingCall.result >= 15000 * UnitsPerMs

\* the computed delay fell below 15 s and the call returned exactly 15 s
C1_Witness ==
    /\ IsCalculateActionDelay
    /\ sessionState.speedMode = "NORMAL"
    /\ timingCall.entropic < 15000 * UnitsPerMs
    /\ timingCall.result = 15000 * UnitsPerMs

\* C13: the fatigue multiplier is non-decreasing in actions-this-session, is
\* 1.0 at 0 actions and 1.5 for every count of 41 or more.
C13_FatigueMonotone ==
    IsCalculateActionDelay =>
        LET actions == sessionState.actionsThisSession
            fatigue == timingCall.fatigueMultiplier
        IN  /\ actions = 0 => fatigue = FatigueDenominator
            /\ actions >= 41 => 2 * fatigue = 3 * FatigueDenominator
            /\ \A fewer \in 0..actions : CalculateFatigueMultiplier(fewer) <= fatigue

\* a call at 40 actions: above every smaller count, below the 41+ plateau
C13_Witness ==
    /\ IsCalculateActionDelay
    /\ sessionState.actionsThisSession = 40
    /\ timingCall.fatigueMultiplier > CalculateFatigueMultiplier(30)
    /\ 2 * timingCall.fatigueMultiplier < 3 * FatigueDenominator

(***************************************************************************)
(* Claims about shouldTakeBreak, checked under SpecBreak                   *)
(***************************************************************************)
IsShouldTakeBreak == timingCall.op = "shouldTakeBreak"

\* the session-end threshold of each speed tier, in actions
SessionEndThreshold(speedMode) ==
    CASE speedMode = "ULTRA_SLOW" -> 20 [] speedMode = "SLOW" -> 30
      [] speedMode = "MEDIUM" -> 40 [] speedMode = "NORMAL" -> 50

ThresholdReached ==
    sessionState.actionsThisSession >= SessionEndThreshold(sessionState.speedMode)

HourElapsed == now - sessionState.sessionStartTime >= 3600

\* C11: shouldTakeBreak returns a session-end break whenever
\* actions-this-session has reached the speed tier's session-end threshold,
\* whatever the elapsed time, and whenever the session is at least one hour
\* old, whatever the action count.
C11_SessionEndBreak ==
    IsShouldTakeBreak =>
        /\ ThresholdReached => timingCall.result.type = "session-end"
        /\ HourElapsed => timingCall.result.type = "session-end"
        /\ timingCall.result.type = "session-end" =>
              /\ timingCall.result.needed
              /\ timingCall.result.duration >= 2 * 60 * 60 * 1000
              /\ timingCall.result.duration < 4 * 60 * 60 * 1000

\* an hour-old session without a single action is sent into a session-end break
C11_Witness ==
    /\ IsShouldTakeBreak
    /\ sessionState.actionsThisSession = 0
    /\ HourElapsed
    /\ timingCall.result.type = "session-end"

\* C12: shouldTakeBreak returns at most one break directive per call, with
\* priority session-end > medium > mini: a medium or mini break is returned
\* only when the session-end condition is false, and a mini break only when
\* the medium-break draw did not fire.
C12_BreakPriority ==
    IsShouldTakeBreak =>
        LET actions == sessionState.actionsThisSession
            type == timingCall.result.type
        IN  /\ type \in {"session-end", "medium", "mini", "null"}
            /\ timingCall.result.needed <=> type # "null"
            /\ type \in {"medium", "mini"} => ~(ThresholdReached \/ HourElapsed)
            /\ type = "mini" => ~(actions > 0 /\ actions % timingCall.mediumEvery = 0)

\* both draws divide the action count and the medium break is the one returned
C12_Witness ==
    /\ IsShouldTakeBreak
    /\ sessionState.actionsThisSession = 30
    /\ timingCall.mediumEvery = 30
    /\ timingCall.miniEvery = 10
    /\ timingCall.result.type = "medium"

(***************************************************************************)
(* Claims about ResponseProtocol, checked under SpecResponse               *)
(***************************************************************************)
IsExecuteResponse == responseCall.op = "executeResponse"

\* C14: executeResponse applies exactly the recipe of its level to persisted
\* state: maximum sets automationEnabled = false, the emergency-stop flag and
\* a cooldown expiry of now + 48 h; high sets automationPaused = true,
\* delayMultiplier = 3.0 and batchSizeMultiplier = 0.5; medium sets
\* delayMultiplier = 1.5 and skipNextActions = 2; low sets breakUntil = now +
\* 10 minutes and randomizationMultiplier = 2.0; baseline changes no persisted
\* key and sends no message.
C14_ResponseRecipe ==
    IsExecuteResponse =>
        LET before == responseCall.before
            t == responseCall.calledAt
            level == responseCall.alertLevel
        IN  /\ level = "DEFCON5" =>
                  storage = [before EXCEPT !.automationEnabled = FALSE,
                                           !.emergencyStop = TRUE,
                                           !.cooldownEnd = <<t + 48 * 60 * 60>>]
            /\ level = "DEFCON4" =>
                  storage = [before EXCEPT !.automationPaused = TRUE,
                                           !.delayMultiplier = <<30>>,
                                           !.batchSizeMultiplier = <<5>>]
            /\ level = "DEFCON3" =>
                  storage = [before EXCEPT !.delayMultiplier = <<15>>,
                                           !.skipNextActions = <<2>>]
            /\ level = "DEFCON2" =>
                  storage = [before EXCEPT !.breakUntil = <<t + 10 * 60>>,
                                           !.randomizationMultiplier = <<20>>]
            /\ level = "DEFCON1" => storage = before /\ responseCall.sent = <<>>

\* the maximum recipe applied, later than time 0, to a state in which
\* automation was on and an earlier high-level response had left its keys
C14_Witness ==
    /\ IsExecuteResponse
    /\ responseCall.alertLevel = "DEFCON5"
    /\ responseCall.calledAt > 0
    /\ responseCall.before.automationEnabled
    /\ ~responseCall.before.emergencyStop
    /\ responseCall.before.delayMultiplier = <<30>>
    /\ storage.cooldownEnd = <<now + CooldownSeconds>>
    /\ storage.emergencyStop /\ ~storage.automationEnabled

(***************************************************************************)
(* Claims about failing detection tiers, checked under SpecScanFailure     *)
(***************************************************************************)
\* C15: performFullScan never propagates an exception: when the check of one
\* detection tier fails, the scan still returns a DetectionResult with the
\* signals of the other tiers, and the failed tier contributes no signal.
C15_ScanNeverThrows ==
    IsFullScan => detectCall.settled = "fulfilled"

(***************************************************************************)
(* Claims about an unmatched account age, checked under SpecFallback       *)
(***************************************************************************)
\* config a restricts at least as much as config b, in every dimension
AtLeastAsRestrictive(a, b) ==
    /\ a.maxActionsPerDay <= b.maxActionsPerDay
    /\ a.maxCommentsPerDay <= b.maxCommentsPerDay
    /\ a.minActionSpread >= b.minActionSpread
    /\ a.allowedSpeed \subseteq b.allowedSpeed
    /\ a.restrictedToConnections <= b.restrictedToConnections
    /\ b.requiresManualApproval => a.requiresManualApproval

\* a warm-up of a days lasts at least as long as one of b days
AtLeastAsLong(a, b) == a = <<>> \/ (b # <<>> /\ a[1] >= b[1])

\* C16: for an account age that matches none of the five known tiers,
\* getWarmupConfig and the warm-up length fall back to the strictest known
\* profile: a config at least as restrictive in every dimension, and a
\* warm-up at least as long, as that of every known tier.
C16_FallbackIsStrictest ==
    /\ (warmupCall.op = "getWarmupConfig" /\ accountAge \notin AccountAges) =>
          \A age \in AccountAges :
              AtLeastAsRestrictive(warmupCall.config, GetWarmupConfig(age, currentDay))
    /\ (warmupCall.op = "getWarmupStatus" /\ accountAge \notin AccountAges) =>
          \A age \in AccountAges :
              AtLeastAsLong(warmupCall.status.totalDays, GetTotalWarmupDays(age))

(***************************************************************************)
(* Claims about the automation loop, checked under SpecLoop                *)
(***************************************************************************)
\* the activations of automationLoop that exist
Activations ==
    {pk \in Pages \X Slots : loops[pk[1]][pk[2]].pc \notin {"none", "closed"}}

\* the activation of slot pk[2] on page pk[1]
ActivationOf(pk) == loops[pk[1]][pk[2]]

\* the warm-up config the pages hold
CurrentConfig == GetWarmupConfig(accountAge, currentDay)

\* C17: from the moment a cooldown opens until it expires the automation
\* loop performs no action, for every sequence of popup toggles,
\* START_AUTOMATION messages, break-restart timers and health checks in
\* between: no action step is taken while the cooldown record is running.
C17_NoActionDuringCooldown ==
    \A pk \in Activations : ~ActivationOf(pk).acted.inCooldown

\* C19: the loop executes a COMMENT only after canPerformAction('comment')
\* allowed it on the current counters, so the comments recorded today never
\* exceed maxCommentsPerDay and are zero while comments are disabled.
C19_CommentOnlyWhenAllowed ==
    /\ \A pk \in Activations :
           ActivationOf(pk).acted.kind = "comment" =>
               ActivationOf(pk).commentCheck = "allowed"
    /\ GetActionsToday(storage.actionHistory, now).comments
           <= CurrentConfig.maxCommentsPerDay

\* C20: cancellation is cooperative with a latency of one wait: once
\* stopAutomation has cleared the flag, no action step (like click, comment,
\* action record) is executed by an activation after the wait it was in.
C20_NoActionAfterStop ==
    \A pk \in Activations : ~ActivationOf(pk).acted.afterStop

(***************************************************************************)
(* Claims about loops sharing the history, checked under SpecTwoLoops      *)
(***************************************************************************)
\* C18: the actions recorded today never exceed maxActionsPerDay of the
\* current warm-up config, for every interleaving of the automation loops
\* (one per open page) that share the history.
C18_DailyLimitAcrossPages ==
    GetActionsToday(storage.actionHistory, now).total <= CurrentConfig.maxActionsPerDay

(***************************************************************************)
(* Claims about activations of one page, checked under SpecRestart         *)
(***************************************************************************)
\* the activations of automationLoop executing on page p
ActivationsOn(p) == {k \in Slots : loops[p][k].pc \notin {"none", "closed"}}

\* C21: within one page context at most one activation of automationLoop
\* is executing at any time, for every sequence of START_AUTOMATION and
\* STOP_AUTOMATION messages and break-restart timers, including a stop
\* followed by a start while the loop is suspended in a wait.
C21_OneActivationPerPage ==
    \A p \in Pages : Cardinality(ActivationsOn(p)) <= 1

AppearanceSignals ==
    {i \in 1..Len(detectCall.signals) : detectCall.signals[i].type = "warning"}

\* C23: every signal produced by the appearance tier (warning-phrase match,
\* challenge marker, more than 50% of action controls disabled,
\* security-checkpoint location) has the maximum severity DEFCON5.
C23_AppearanceAlwaysMax ==
    IsFullScan =>
        \A i \in AppearanceSignals : detectCall.signals[i].severity = "DEFCON5"

\* C23 as amended: the warning-phrase, challenge-marker and checkpoint
\* signals have severity DEFCON5; the disabled-controls signal has DEFCON4.
C23_AppearanceSeverity ==
    IsFullScan =>
        \A i \in AppearanceSignals :
            /\ detectCall.signals[i].kind
                   \in {"warning-pattern", "captcha", "disabled-ui", "checkpoint"}
            /\ detectCall.signals[i].severity =
                   IF detectCall.signals[i].kind = "disabled-ui" THEN "DEFCON4"
                   ELSE "DEFCON5"

C23_Witness ==
    /\ IsFullScan
    /\ HasSignal("warning-pattern") /\ HasSignal("captcha")
    /\ HasSignal("disabled-ui") /\ HasSignal("checkpoint")

(***************************************************************************)
(* Claims about the daily-limit signal, checked under SpecPattern          *)
(***************************************************************************)
\* C24: the pattern tier emits the approaching-daily-limit signal exactly
\* when today's action count is at least 90% of the daily cap the warm-up
\* policy permits (getWarmupConfig().maxActionsPerDay for the tier and day).
C24_DailyLimitOfWarmupConfig ==
    IsDetectPatternRisks =>
        (HasSignal("daily-limit") <=>
            10 * sessionState.actionsToday
                >= 9 * GetWarmupConfig(accountAge, currentDay).maxActionsPerDay)

(***************************************************************************)
(* Claims about the warm-up day, checked under SpecWarmup and SpecEnvelope *)
(***************************************************************************)
DayFloor(t, start) == ((t - start) \div DaySeconds) + 1

\* C25: the warm-up day number the policy uses is
\* max(1, floor((now - warmupStart) / one day) + 1); it is at least 1 when
\* the warm-up start lies in the future.
C25_DayNumberAtLeastOne ==
    (IsGetWarmupConfig \/ IsCanPerformAction) =>
        /\ currentDay = (IF DayFloor(now, warmupStartDate) < 1 THEN 1
                         ELSE DayFloor(now, warmupStartDate))
        /\ currentDay >= 1

\* C26: the envelope is recomputed on every query: a WarmupProtocol queried
\* after a day boundary has passed, or after the stored account-age tier was
\* changed, answers getWarmupConfig and canPerformAction with the config of
\* the stored tier and of the day that now is, not with the one of its
\* construction.
C26_EnvelopeRecomputedOnQuery ==
    (IsGetWarmupConfig \/ IsCanPerformAction) =>
        warmupCall.config =
            GetWarmupConfig(storage.accountAge,
                            CalculateCurrentDay(now, storage.warmupStartDate))

(***************************************************************************)
(* Claims about getPostWarmupLimits, checked under SpecPostWarmup          *)
(***************************************************************************)
IsGetPostWarmupLimits == warmupCall.op = "getPostWarmupLimits"

\* days elapsed since the end of the warm-up of a tier with a finite warm-up
SinceWarmupEnd == currentDay - GetTotalWarmupDays(accountAge)[1]

RampingTiers == {"THREE_TO_SIX_MONTHS", "SIX_TO_TWELVE_MONTHS"}

\* the claim as stated: both ramping tiers go 60, 80, 100 at the 30-day and
\* 60-day checkpoints, every other tier is at 100 at once
C28_BothTiersSixtyEightyHundred ==
    IsGetPostWarmupLimits =>
        warmupCall.limits.percentage =
            (IF accountAge \notin RampingTiers THEN 100
             ELSE IF SinceWarmupEnd <= 30 THEN 60
             ELSE IF SinceWarmupEnd <= 60 THEN 80
             ELSE 100)

\* C28: getPostWarmupLimits is a step function of the days elapsed since the
\* end of the warm-up: for the 3-6 month tier the percentage is 60 up to the
\* 30-day checkpoint, 80 up to the 60-day checkpoint and 100 afterwards; for
\* the 6-12 month tier it is 75 up to the 30-day checkpoint and 100
\* afterwards; for the remaining tiers it is 100 immediately.
C28_PostWarmupStepFunction ==
    IsGetPostWarmupLimits =>
        /\ accountAge = "THREE_TO_SIX_MONTHS" =>
              /\ SinceWarmupEnd <= 30 => warmupCall.limits.percentage = 60
              /\ (SinceWarmupEnd > 30 /\ SinceWarmupEnd <= 60) =>
                    warmupCall.limits.percentage = 80
              /\ SinceWarmupEnd > 60 => warmupCall.limits.percentage = 100
        /\ accountAge = "SIX_TO_TWELVE_MONTHS" =>
              /\ SinceWarmupEnd <= 30 => warmupCall.limits.percentage = 75
              /\ SinceWarmupEnd > 30 => warmupCall.limits.percentage = 100
        /\ accountAge \notin RampingTiers => warmupCall.limits.percentage = 100

\* the 6-12 month tier is asked on its 30-day checkpoint
C28_Witness ==
    /\ IsGetPostWarmupLimits
    /\ accountAge = "SIX_TO_TWELVE_MONTHS"
    /\ SinceWarmupEnd = 30
    /\ warmupCall.limits.percentage = 75

(***************************************************************************)
(* Claims about the day buckets of a tier, checked under SpecWarmup        *)
(***************************************************************************)
LaterDays == {d \in 1..(MaxDay + 1) : d > currentDay}

AtLeastAsPermissive(c1, c2) ==
    /\ c2.maxActionsPerDay >= c1.maxActionsPerDay
    /\ c2.maxCommentsPerDay >= c1.maxCommentsPerDay
    /\ c2.minActionSpread <= c1.minActionSpread
    /\ c2.restrictedToConnections >= c1.restrictedToConnections
    /\ c1.allowedSpeed \subseteq c2.allowedSpeed

\* C27: within a tier the config of a later day is at least as permissive
\* as the one of an earlier day (caps at least as high, hour-spread at most
\* as large, degree scope at least as wide, a superset of the allowed
\* speeds), so a request canPerformAction allows on day d1 is allowed on
\* every later day d2.
C27_LaterDayAtLeastAsPermissive ==
    IsCanPerformAction =>
        \A d2 \in LaterDays :
            /\ AtLeastAsPermissive(warmupCall.config, GetWarmupConfig(accountAge, d2))
            /\ warmupCall.result.allowed =>
                  CanPerformAction(GetWarmupConfig(accountAge, d2),
                                   warmupCall.actionType, warmupCall.actionsToday,
                                   warmupCall.commentsToday, warmupCall.connectionDegree,
                                   warmupCall.currentSpeed).allowed

(***************************************************************************)
(* Claims about the periodic appearance scan, checked under SpecPassive    *)
(***************************************************************************)
IsPassiveScan == responseCall.op = "passiveScan"

\* the highest severity among the signals of the scan
MaxSignalSeverity ==
    CHOOSE level \in AlertLevels :
        /\ \E i \in DOMAIN responseCall.signals : responseCall.signals[i].severity = level
        /\ \A i \in DOMAIN responseCall.signals :
              SeverityRank(responseCall.signals[i].severity) <= SeverityRank(level)

\* C29: a firing of the periodic 10 s appearance scan that finds signals
\* executes the response recipe of the maximum severity among them, whatever
\* the order in which the signals were pushed.
C29_PassiveScanRunsMaxSeverity ==
    IsPassiveScan =>
        /\ responseCall.alertLevel = MaxSignalSeverity
        /\ storage = ExecuteResponse(MaxSignalSeverity, responseCall.before,
                                     responseCall.calledAt, responseCall.signals).storage
        /\ responseCall.sent = ExecuteResponse(MaxSignalSeverity, responseCall.before,
                                     responseCall.calledAt, responseCall.signals).sent

(***************************************************************************)
(* Claims about the session state of a controller, checked under SpecLoop  *)
(***************************************************************************)
\* C30: the session state the timing model and the detector of a running
\* controller read follows the persisted session state: after recordAction
\* its counts are one higher, after startNewSession they are 0 with a fresh
\* start time, so that a session-end break fires once the actions of the
\* session reach the threshold.
C30_SessionStateFollowsStorage ==
    \A p \in Pages :
        pages[p].isRunning =>
            /\ pages[p].session.actionsThisSession = storage.sessionState.actionsThisSession
            /\ pages[p].session.actionsToday = storage.sessionState.actionsToday
            /\ pages[p].session.sessionStartTime = storage.sessionState.sessionStartTime

(***************************************************************************)
(* Claims about simulateTyping, checked under SpecTyping                   *)
(***************************************************************************)
\* the characters typed so far are the first characters of the text
IsPrefixOfText(typed) ==
    /\ Len(typed) <= Len(timingCall.text)
    /\ typed = SubSeq(timingCall.text, 1, Len(typed))

\* C31: when simulateTyping(text, element) completes the element's value
\* equals text, whatever the typo and delete-and-retype draws were; a wrong
\* character is removed before the correct one is typed, and the words
\* deleted in the excursion are typed again.
C31_TypedValueEqualsText ==
    /\ IsTyping("retype") => IsPrefixOfText(timingCall.value)
    /\ IsTyping("done") => timingCall.value = timingCall.text

(***************************************************************************)
(* Claims about generateCursorPath, checked under SpecCursor               *)
(***************************************************************************)
IsGenerateCursorPath == timingCall.op = "generateCursorPath"

\* a coordinate in tenths lies between low% and high% of the way from start
\* to end (percentages in tens)
WithinSpan(pointTenths, start, end, low, high) ==
    IF end >= start
    THEN /\ 10 * start + low * (end - start) <= pointTenths
         /\ pointTenths <= 10 * start + high * (end - start)
    ELSE /\ 10 * start + high * (end - start) <= pointTenths
         /\ pointTenths <= 10 * start + low * (end - start)

\* C32: for every random draw generateCursorPath places its first control
\* point between 20% and 40% of the start-to-end span and its second between
\* 60% and 80% of the span, on each axis.
C32_ControlPointsWithinSpan ==
    IsGenerateCursorPath =>
        LET from == timingCall.start
            to == timingCall.end
            r == timingCall.result
        IN  /\ WithinSpan(r.cp1.x, from.x, to.x, 2, 4)
            /\ WithinSpan(r.cp1.y, from.y, to.y, 2, 4)
            /\ WithinSpan(r.cp2.x, from.x, to.x, 6, 8)
            /\ WithinSpan(r.cp2.y, from.y, to.y, 6, 8)

(***************************************************************************)
(* Claims about the loop after a PAUSE, checked under SpecLoop             *)
(***************************************************************************)
\* an activation is back at the head of the loop after the pause recipe ran,
\* and nothing asked it to stop
BackFromPause(p, k) ==
    /\ loops[p][k].pc = "top"
    /\ loops[p][k].paused
    /\ pages[p].isRunning
    /\ ~loops[p][k].stopped
    /\ storage.automationEnabled
    /\ ~storage.emergencyStop

\* C33: after a PAUSE recommendation the loop runs the pause recipe, waits
\* and then continues with a new scan: an activation that comes back from
\* the wait, no stop having been requested, goes on to the scan and does not
\* leave the loop.
C33_LoopContinuesAfterPause ==
    [][\A p \in Pages, k \in Slots :
          (BackFromPause(p, k) /\ loops'[p][k].pc # "top") =>
              loops'[p][k].pc = "scan"]_vars

(***************************************************************************)
(* Claims about the scan after an action, checked under SpecWaits          *)
(***************************************************************************)
IsOwnWaitsScan ==
    /\ timingCall.op = "performAction"
    /\ timingCall.success
    /\ timingCall.duration = timingCall.readingTime + timingCall.thinkingTime
    /\ IsFullScan

\* C34: the scan after a successful action whose reported duration is only
\* the timing model's own reading time and thinking pause holds no
\* performance-anomaly signal and does not recommend PAUSE.
C34_OwnWaitsRaiseNoAnomaly ==
    IsOwnWaitsScan =>
        /\ \A i \in 1..Len(detectCall.signals) : detectCall.signals[i].type # "performance"
        /\ detectCall.recommendedAction # "PAUSE"

(***************************************************************************)
(* Claims about a stop by the user, checked under SpecRestart              *)
(***************************************************************************)
\* the user's last switch was to off and page p has handled every message:
\* STOP_AUTOMATION is handled and no explicit start has followed
StoppedByUser(p) == ~popupView.enabled /\ pages[p].inbox = <<>>

\* C35: after STOP_AUTOMATION has been handled and until the next explicit
\* start by the user, automationEnabled stays false and no activation of the
\* automation loop runs other than those the stop has marked; a restart
\* timer of an earlier break neither re-enables nor restarts automation.
C35_StopHoldsUntilNextStart ==
    StoppedByUser("page-1") =>
        /\ ~storage.automationEnabled
        /\ ~pages["page-1"].isRunning
        /\ \A k \in ActivationsOn("page-1") : loops["page-1"][k].stopped

(***************************************************************************)
(* Claims about enabling automation after an incident, checked under       *)
(* SpecRecovery                                                            *)
(***************************************************************************)
\* the user has switched automation on in a popup loaded when no cooldown
\* record was left (an expired one is removed as the popup loads), and no
\* recipe has disabled or paused automation since
EnabledOutsideCooldown ==
    /\ popupView.enabled
    /\ storage.automationEnabled
    /\ ~storage.automationPaused
    /\ storage.cooldownEnd = Undefined

\* C36: once the 48-hour cooldown of a maximum-level incident has expired and
\* the user has enabled automation again, isAutomationEnabled() returns true:
\* the emergency-stop flag does not outlive the cooldown.
C36_EnabledAfterCooldown ==
    EnabledOutsideCooldown => IsAutomationEnabled(storage)

(***************************************************************************)
(* Claims about the cooldown of the maximum-level recipe, checked under    *)
(* SpecResponse                                                            *)
(***************************************************************************)
IsMaximumLevelResponse ==
    responseCall.op = "executeResponse" /\ responseCall.alertLevel = "DEFCON5"

\* C40: the cooldown opened by the maximum-level recipe leaves in storage
\* what enable48HourCooldown leaves: expiry = now + 48 h, a reason recorded,
\* automation disabled and the warning counter increased by one.
C40_RecipeCooldownAsEnable48Hour ==
    IsMaximumLevelResponse =>
        /\ storage.cooldownEnd = Some(responseCall.calledAt + CooldownSeconds)
        /\ storage.cooldownReason # Undefined
        /\ ~storage.automationEnabled
        /\ WarningCountOf(storage) = WarningCountOf(responseCall.before) + 1

(***************************************************************************)
(* Claims about handlers running concurrently, checked under SpecConcurrent *)
(***************************************************************************)
\* C37: the calls of enable48HourCooldown that have completed, issued by
\* handlers running at the same time, have increased the persisted warning
\* counter by exactly their number, in every interleaving.
C37_EveryEnableCounted ==
    WarningCountOf(storage) = enablesDone

\* C38: the record of a cooldown opened by enable48HourCooldown is not
\* removed before its own expiry, so that isInCooldown reports the cooldown
\* as active until then, in every interleaving with isInCooldown calls of
\* other contexts that lazily clear an earlier, expired record.
C38_OpenCooldownStaysUntilExpiry ==
    [][CooldownOpen(storage, now) => storage'.cooldownEnd # Undefined]_vars

(***************************************************************************)
(* Claims about manual approval, checked under SpecApproval                *)
(***************************************************************************)
\* C39: while the current warm-up config has requiresManualApproval = true,
\* the automation loop executes no action on its own: no activation takes an
\* action step (like click, comment).
C39_NoActionWithoutApproval ==
    CurrentConfig.requiresManualApproval =>
        \A pk \in Activations : ActivationOf(pk).acted.kind = "none"

====
